---------------------------- MODULE Spec2Model ----------------------------
(***************************************************************************)
(* Model of the Databricks Slack bots.                                     *)
(*                                                                         *)
(*   genie-slack-app/databricks_genie_client.py  DatabricksGenieClient     *)
(*   genie-slack-app/slack_bot.py                SlackGenieBot             *)
(*   slack-endpoint-app/model_serving_client.py  DatabricksModelServingClient *)
(*   endpoint-slack-app/slack_bot.py             SlackModelServingBot      *)
(*                                                                         *)
(* The specifications share the definitions below:                         *)
(*   SpecWait     one call of wait_for_response, arguments drawn by Init   *)
(*   FairSpecWait SpecWait, the calling thread always taking its next step *)
(*   SpecAsk      one call of ask_question: submit, poll, extract          *)
(*   SpecExtract  ask_question from the return of wait_for_response with a *)
(*                COMPLETED payload, over every attachment list            *)
(*   SpecFeedback send_message_feedback called on its own                  *)
(*   Spec         one of the two bots handling one event after another:    *)
(*                _handle_message step by step, _handle_feedback as one    *)
(*                step; the backend calls are functions of the backend's   *)
(*                answers (AskQuestion, SendMessageFeedback,               *)
(*                ServingAskQuestion)                                      *)
(*   SpecConc     SlackGenieBot with two worker threads, each handling     *)
(*                one event, interleaved at every access to the shared     *)
(*                maps and at every backend request                        *)
(*   FairSpecConc SpecConc, the second worker always taking its next step  *)
(*   SpecTable    one call of _format_data_array                           *)
(*   SpecResults  one call of _send_query_results                          *)
(*   SpecClean    _clean_message_text applied twice to an event text       *)
(*   SpecConcServing  SlackModelServingBot with two worker threads, the   *)
(*                lists of turns as shared objects                         *)
(*   SpecPass / FairSpecPass  one pass of SlackGenieBot with the backend  *)
(*                client's calls, the poll loop and its clock, stepwise    *)
(*   SpecServing  SlackModelServingBot alone, with its system prompt and   *)
(*                the messages list sent to the endpoint                   *)
(*   SpecStartup  main of genie-slack-app/app.py, from setup_logging to    *)
(*                the start of the bot, over every environment             *)
(*                                                                         *)
(* Conventions.  Python's None is None for identifiers and statuses, and   *)
(* Nil (the empty tuple) for optional structured values, Some(x) = <<x>>.  *)
(* A text is a tuple of one-character strings, so that strip(), upper()    *)
(* and concatenation are computed and not assumed; a literal of the code   *)
(* is one element.  A dict key that is absent is None / Nil; JSON null     *)
(* values are not part of the payload domain.                              *)
(* The histories (calls, sent, feedback_calls) are those of the handler    *)
(* run in progress or last finished.                                       *)
(***************************************************************************)
EXTENDS Integers, Sequences, FiniteSets, TLC

\* ------------------------------------------------------------------ bounds
MaxWaitTime == 4        \* largest max_wait_time drawn in SpecWait
MaxPollInterval == 2    \* largest poll_interval drawn in SpecWait
MaxFetchDelay == 1      \* longest time one status request takes
MaxJitter == 1          \* how much longer than poll_interval a sleep may last
MaxAttachments == 3     \* most attachments of a payload in SpecExtract
MaxEvents == 3          \* most Slack events received in Spec
MaxFeedbackCalls == 2   \* most send_message_feedback calls in SpecFeedback
MaxCellLen == 31        \* longest value and column name in SpecTable
MaxTableRows == 2       \* most rows of a data array in SpecTable
MaxDataRows == 12       \* most rows of the query results in SpecResults
MaxTextLen == 5         \* longest event text in SpecClean
MaxPolls == 1           \* most status fetches of one handler that find the
                        \*   message in progress, in SpecConc

Threads == {"t1", "t2"} \* the thread keys of Spec

\* The default arguments of wait_for_response.
DefaultMaxWaitTime == 60
DefaultPollInterval == 2

\* ------------------------------------------------------ optional values
None == "None"
Nil == <<>>
Some(x) == <<x>>
IsNil(o) == o = <<>>
Val(o) == o[1]

\* The ts that Slack gives to the message it delivers on the n-th event.
Ts(n) == ToString(n)

\* Python truthiness of an identifier or string-valued field.
Truthy(x) == x \notin {None, ""}

\* ------------------------------------------------------------------ texts
\* str.strip(): leading and trailing whitespace removed.
Whitespace == {" ", "\n"}

RECURSIVE LStrip(_)
LStrip(t) == IF t # <<>> /\ Head(t) \in Whitespace THEN LStrip(Tail(t)) ELSE t

RECURSIVE RStrip(_)
RStrip(t) ==
    IF t # <<>> /\ t[Len(t)] \in Whitespace THEN RStrip(SubSeq(t, 1, Len(t) - 1)) ELSE t

Strip(t) == RStrip(LStrip(t))

\* The literals of ask_question.
BlankLine == <<"\n", "\n">>
NoResponseGenerated == <<"No response generated">>
UnknownError == <<"Unknown error">>
FailedToSend == <<"Failed to send message">>
FailedOrTimeout == <<"Failed to get response or timeout">>
QueryFailed(msg) == <<"Query failed: ">> \o msg

\* a or b
Or(a, b) == IF Truthy(a) THEN a ELSE b

\* ------------------------------------------------------------ payloads
TerminalStatuses == {"COMPLETED", "FAILED", "CANCELLED"}

\* A message payload of the Genie API, as far as the client reads it.
\* ("query_result" is copied into the result and read by nobody: left out.)
Payload(st, atts, content, err, sq) ==
    [status |-> st, attachments |-> atts, content |-> content, error |-> err,
     suggested_questions |-> sq]

BarePayload(st) == Payload(st, <<>>, Nil, Nil, <<>>)

\* What api_client.do can answer to the status request: it raises ("exc"), or
\* returns an empty dict, the message itself, or a dict nesting it under "message"
\* (nested = Nil: the nested message is an empty dict).
StatusResponse(kind, msg) == [kind |-> kind, msg |-> msg]

StatusResponsesOf(payloads) ==
    {StatusResponse("exc", Nil), StatusResponse("empty", Nil),
     StatusResponse("nested", Nil)}
    \cup {StatusResponse(k, Some(p)) : k \in {"flat", "nested"}, p \in payloads}

\* The payloads of SpecWait: every terminal status, a non-terminal one, no status.
WaitPayloads ==
    {BarePayload(s) : s \in TerminalStatuses \cup {"EXECUTING_QUERY", None}}

\* ------------------------------------------------------------- transport
\* An entry of the request history.
Call(op, raw) == [op |-> op, raised |-> raw.kind = "exc"]

\* _make_request: the response, or None when api_client.do raised.
MakeRequestNoCatch(raw) ==
    [raised |-> raw.kind = "exc", value |-> IF raw.kind = "exc" THEN Nil ELSE Some(raw)]

MakeRequest(raw) ==
    [raised |-> FALSE, value |-> IF raw.kind = "exc" THEN Nil ELSE Some(raw)]

\* `not result` for a response dict: None or the empty dict.
Falsy(r) == IsNil(r.value) \/ Val(r.value).kind = "empty"

\* get_message_status, given what _make_request returned: None, or the message.
GetMessageStatus(r) ==
    IF Falsy(r) THEN Nil
    ELSE Val(r.value).msg

\* ------------------------------------------------------------------ state
VARIABLES
    pc,                  \* control point of the backend-client call in progress
    max_wait_time,       \* wait_for_response: argument
    poll_interval,       \* wait_for_response: argument
    elapsed,             \* wait_for_response: time.time() - start_time, now
    fetched,             \* history: what each get_message_status call returned
    sleeps,              \* history: number of time.sleep calls
    response,            \* what wait_for_response returned
    calls,               \* history: the backend requests issued, in order, each
                         \*   with whether api_client.do raised on it
    conversation_id,     \* ask_question: argument
    message_result,      \* ask_question: what send_message returned
    actual_conversation_id,  \* ask_question: local
    message_id,          \* ask_question: local
    response_text,       \* ask_question: local
    statement_id,        \* ask_question: local
    result,              \* what ask_question returned
    hpc,                 \* _handle_message: control point of the pass in progress
    thread_ts,           \* _handle_message: the thread key of the event
    conversation_map,    \* SlackGenieBot: thread key -> conversation id (None: no entry)
    message_feedback_map,\* SlackGenieBot: prompt ts -> (conversation id, message id)
    sent,                \* history: the outbound Slack messages of the pass, in order
    events,              \* history: number of events received
    carried,             \* history: per thread key, the last non-empty conversation
                         \*   id that a result of ask_question carried
    bot,                 \* which bot class the process runs (app.py builds one)
    conversation_history,\* SlackModelServingBot: thread key -> list of turns
    msg_ts,              \* _handle_feedback: the ts of the message clicked on
    rating,              \* _handle_feedback: argument
    feedback_calls,      \* history: the send_message_feedback calls, each with
                         \*   its arguments, the rating transmitted and the outcome
    text,                \* _handle_message: the event's text, cleaned once the
                         \*   event is accepted
    action_id,           \* _handle_feedback: the control clicked on
    bot_id,              \* _handle_message: whether the event carries a bot_id
    clicks,              \* history: per prompt ts, the number of clicks on it since
                         \*   its entry was recorded and the (conversation id,
                         \*   message id) of every send_message_feedback call made
                         \*   for them
    handlers,            \* SpecConc: per worker thread of the listener pool, the
                         \*   control point and the locals of the handler it runs
    last_store,          \* SpecConc, history: the worker thread that last wrote
                         \*   conversation_map
    column_names,        \* _format_data_array: argument
    data_array,          \* _format_data_array: argument; _send_query_results:
                         \*   data["data_array"]
    row_count,           \* _send_query_results: data["row_count"] if present
    table_text,          \* what _format_data_array returned
    result_message,      \* _send_query_results: the text posted, if any
    event_text,          \* _clean_message_text: the text it was first called on
    config,              \* Config: the required variables as read from the
                         \*   environment
    mpc,                 \* main: control point
    config_error,        \* main: the message of the ValueError of validate
    exit_code,           \* main: the argument of sys.exit
    steps,               \* history: the steps of main completed, in order
    heap,                \* SpecConcServing: the list objects, by identity
    history_ref,         \* SpecConcServing: thread key -> the list object that
                         \*   self.conversation_history holds for it (None: no key)
    system_prompt,       \* SlackModelServingBot.system_prompt: Nil for None
    messages             \* the messages list of the last query to the endpoint

waitVars == <<max_wait_time, poll_interval, elapsed, fetched, sleeps, response>>

askVars == <<conversation_id, message_result, actual_conversation_id, message_id,
             response_text, statement_id, result>>

\* The arguments and results of the helpers that the specifications SpecTable,
\* SpecResults and SpecClean call on their own.
startVars == <<config, mpc, config_error, exit_code, steps>>

heapVars == <<heap, history_ref>>

servingVars == <<system_prompt, messages>>

helperVars == <<column_names, data_array, row_count, table_text, result_message,
                event_text, startVars, heapVars, servingVars>>

botVars == <<hpc, thread_ts, conversation_map, message_feedback_map, sent, events,
             carried, bot, conversation_history, msg_ts, rating, feedback_calls,
             text, action_id, bot_id, clicks, handlers, last_store, helperVars>>

vars == <<pc, waitVars, calls, askVars, botVars>>

\* ------------------------------------------------------ wait_for_response
\* The while condition: time.time() - start_time < max_wait_time.
LoopConditionInclusive(e, m) == e <= m

LoopCondition(e, m) == e < m

\* state == "COMPLETED", or state in ["FAILED", "CANCELLED"].
IsTerminalCompletedOnly(state) == state = "COMPLETED"

IsTerminalAnyStatus(state) == state # None

IsTerminal(state) == state = "COMPLETED" \/ state \in {"FAILED", "CANCELLED"}

\* start_time = time.time()
WaitStart ==
    /\ pc = "start"
    /\ elapsed' = 0
    /\ pc' = "loop"
    /\ UNCHANGED <<max_wait_time, poll_interval, fetched, sleeps, response, calls,
                   askVars, botVars>>

\* One evaluation of the while condition; when it fails: the timeout, return None.
WaitLoop ==
    /\ pc = "loop"
    /\ IF LoopCondition(elapsed, max_wait_time)
       THEN pc' = "fetch" /\ UNCHANGED response
       ELSE pc' = "returned" /\ response' = Nil
    /\ UNCHANGED <<max_wait_time, poll_interval, elapsed, fetched, sleeps, calls,
                   askVars, botVars>>

\* Where the loop body goes after get_message_status returned `status`.
AfterStatusIgnoreAbsent(status) ==
    IF IsNil(status) THEN "sleep"
    ELSE IF IsTerminal(Val(status).status) THEN "returned" ELSE "sleep"

AfterStatus(status) ==
    IF IsNil(status) THEN "returned"
    ELSE IF IsTerminal(Val(status).status) THEN "returned" ELSE "sleep"

\* status = get_message_status(...), then the tests on it.  The request takes
\* d seconds and answers raw.
WaitFetch(responses) ==
    /\ pc = "fetch"
    /\ \E raw \in responses, d \in 0..MaxFetchDelay :
         LET r == MakeRequest(raw)
             status == GetMessageStatus(r)
         IN  /\ elapsed' = elapsed + d
             /\ calls' = Append(calls, Call("status", raw))
             /\ IF r.raised
                THEN pc' = "raised" /\ UNCHANGED <<fetched, response>>
                ELSE /\ fetched' = Append(fetched, status)
                     /\ pc' = AfterStatus(status)
                     /\ response' = IF pc' = "returned" THEN status ELSE response
    /\ UNCHANGED <<max_wait_time, poll_interval, sleeps, askVars, botVars>>

\* How long time.sleep(poll_interval) lasts at least.
SleepTime(p) == p

\* time.sleep(poll_interval)
WaitSleep ==
    /\ pc = "sleep"
    /\ \E j \in 0..MaxJitter : elapsed' = elapsed + SleepTime(poll_interval) + j
    /\ sleeps' = sleeps + 1
    /\ pc' = "loop"
    /\ UNCHANGED <<max_wait_time, poll_interval, fetched, response, calls,
                   askVars, botVars>>

\* ---------------------------------------------------------------- SpecWait
\* The worker threads of SpecConc, and a thread that runs no handler.
Handlers == {"h1", "h2"}

IdleHandler ==
    [hpc |-> "idle", kind |-> None, thread_ts |-> None, msg_ts |-> None,
     conversation_id |-> None, send_response |-> Nil, message_result |-> Nil,
     polls |-> 0, result |-> Nil, overtook |-> FALSE]

\* No ask_question call is in progress.
AskIdle ==
    /\ conversation_id = None
    /\ message_result = Nil
    /\ actual_conversation_id = None
    /\ message_id = None
    /\ response_text = <<>>
    /\ statement_id = None
    /\ result = Nil

\* No wait_for_response call is in progress.
WaitIdle ==
    /\ max_wait_time = DefaultMaxWaitTime
    /\ poll_interval = DefaultPollInterval
    /\ elapsed = 0
    /\ fetched = <<>>
    /\ sleeps = 0
    /\ response = Nil

\* No system prompt configured, nothing sent to the endpoint.
ServingIdle ==
    /\ system_prompt = Nil
    /\ messages = <<>>

\* The lists of turns are not looked at as objects.
HeapIdle ==
    /\ heap = <<>>
    /\ history_ref = <<>>

\* The process as main leaves it when the bot is started: the configuration
\* validated, the client and the bot built.
StartIdle ==
    /\ config = [v \in {"SLACK_BOT_TOKEN", "SLACK_SIGNING_SECRET", "SLACK_APP_TOKEN",
                        "DATABRICKS_GENIE_SPACE_ID"} |-> "v"]
    /\ mpc = "running"
    /\ config_error = Nil
    /\ exit_code = Nil
    /\ steps = <<"setup_logging", "validate", "DatabricksGenieClient",
                 "SlackGenieBot", "start">>

\* No helper called on its own.
HelpersIdle ==
    /\ StartIdle
    /\ HeapIdle
    /\ ServingIdle
    /\ column_names = <<>>
    /\ data_array = <<>>
    /\ row_count = Nil
    /\ table_text = Nil
    /\ result_message = Nil
    /\ event_text = <<>>

\* The bot as constructed, no event received.
BotIdle ==
    /\ hpc = "idle"
    /\ thread_ts = None
    /\ conversation_map = [k \in Threads |-> None]
    /\ message_feedback_map = [ts \in {Ts(n) : n \in 1..MaxEvents} |-> Nil]
    /\ sent = <<>>
    /\ events = 0
    /\ carried = [k \in Threads |-> None]
    /\ conversation_history = [k \in Threads |-> <<>>]
    /\ msg_ts = None
    /\ rating = None
    /\ feedback_calls = <<>>
    /\ text = <<>>
    /\ action_id = None
    /\ bot_id = FALSE
    /\ clicks = [ts \in {Ts(n) : n \in 1..MaxEvents} |-> [n |-> 0, calls |-> <<>>]]
    /\ handlers = [h \in Handlers |-> IdleHandler]
    /\ last_store = None

InitWait ==
    /\ AskIdle
    /\ BotIdle
    /\ HelpersIdle
    /\ bot = "SlackGenieBot"
    /\ pc = "start"
    /\ max_wait_time \in 0..MaxWaitTime
    /\ poll_interval \in 1..MaxPollInterval
    /\ elapsed = 0
    /\ fetched = <<>>
    /\ sleeps = 0
    /\ response = Nil
    /\ calls = <<>>

NextWait ==
    \/ WaitStart
    \/ WaitLoop
    \/ WaitFetch(StatusResponsesOf(WaitPayloads))
    \/ WaitSleep

SpecWait == InitWait /\ [][NextWait]_vars

FairSpecWait == SpecWait /\ WF_vars(NextWait)

\* ------------------------------------------------------------ send_message
\* What api_client.do can answer to the submit request ("exc": it raises): the
\* ids at the top level of the dict and, in message, the nested message dict
\* (Nil: no "message" key, or an empty one).
SendResponse(kind, mid, id, cid, msg) ==
    [kind |-> kind, message_id |-> mid, id |-> id, conversation_id |-> cid,
     message |-> msg]

NestedMessage(id, cid) == [id |-> id, conversation_id |-> cid]

\* send_message, given what _make_request returned: None, or the dict with the
\* message id and the conversation id at the top level.
SendMessage(conv, r) ==
    IF Falsy(r) THEN Nil
    ELSE LET res == Val(r.value)
             top_id == Or(res.message_id, res.id)
             message_data == res.message
         IN  IF ~IsNil(message_data)
             THEN Some([id |-> Or(Val(message_data).id, top_id),
                        conversation_id |-> Val(message_data).conversation_id])
             ELSE Some([id |-> top_id,
                        conversation_id |-> IF res.conversation_id = None
                                            THEN conv
                                            ELSE res.conversation_id])

\* ------------------------------------------------------------ ask_question
\* An attachment: a "text" one with its content, a "query" one with its
\* description and statement id, or one of another kind, here a chart with its
\* url; a missing content or description is the empty text (.get(..., "")).
TextAttachment(content) == [kind |-> "text", text |-> content, statement_id |-> None]

QueryAttachment(description, sid) ==
    [kind |-> "query", text |-> description, statement_id |-> sid]

ChartAttachment == [kind |-> "chart", text |-> <<>>, statement_id |-> None]

\* The for loop over the attachments: response_text.
RECURSIVE ExtractTextKeepEmpty(_)
ExtractTextKeepEmpty(atts) ==
    IF atts = <<>> THEN <<>>
    ELSE (IF Head(atts).kind \in {"text", "query"}
          THEN Head(atts).text \o BlankLine ELSE <<>>)
         \o ExtractTextKeepEmpty(Tail(atts))

RECURSIVE ExtractText(_)
ExtractText(atts) ==
    IF atts = <<>> THEN <<>>
    ELSE (IF Head(atts).kind \in {"text", "query"} /\ Head(atts).text # <<>>
          THEN Head(atts).text \o BlankLine ELSE <<>>)
         \o ExtractText(Tail(atts))

\* The for loop over the attachments: statement_id, assigned by every query
\* attachment in turn.
RECURSIVE StatementIdFrom(_, _)
StatementIdFrom(atts, sid) ==
    IF atts = <<>> THEN sid
    ELSE StatementIdFrom(Tail(atts),
                         IF Head(atts).kind = "query"
                         THEN Head(atts).statement_id ELSE sid)

ExtractStatementId(atts) == StatementIdFrom(atts, None)

\* What api_client.do can answer to the statement request.
StatementResponse(kind, res, schema) == [kind |-> kind, result |-> res, schema |-> schema]

StatementResponses ==
    {StatementResponse("exc", Nil, Nil), StatementResponse("empty", Nil, Nil)}
    \cup {StatementResponse("dict", r, sc) :
             r \in {Nil, Some("rows")}, sc \in {Nil, Some("columns")}}

\* result_data: None unless the statement result is there.
ResultData(r) ==
    IF Falsy(r) THEN Nil
    ELSE Some([data |-> Val(r.value).result, schema |-> Val(r.value).schema])

\* The dicts ask_question returns; a key the dict lacks is None / Nil / empty.
FailureResultDropsConversation(cid, err) ==
    [success |-> FALSE, conversation_id |-> None, message_id |-> None,
     response |-> Nil, error |-> Some(err), attachments |-> <<>>,
     result_data |-> Nil, suggested_questions |-> <<>>]

FailureResult(cid, err) ==
    [success |-> FALSE, conversation_id |-> cid, message_id |-> None,
     response |-> Nil, error |-> Some(err), attachments |-> <<>>,
     result_data |-> Nil, suggested_questions |-> <<>>]

\* The fallback to the content, and the final strip.
FinalText(rtext, payload) ==
    Strip(IF Strip(rtext) = <<>>
          THEN (IF IsNil(payload.content) THEN NoResponseGenerated
                ELSE Val(payload.content))
          ELSE rtext)

CompletedResult(cid, mid, rtext, payload, rd) ==
    [success |-> TRUE, conversation_id |-> cid, message_id |-> mid,
     response |-> Some(FinalText(rtext, payload)), error |-> Nil,
     attachments |-> payload.attachments, result_data |-> rd,
     suggested_questions |-> payload.suggested_questions]

\* error_msg = response.get("error", {}).get("message", "Unknown error")
ErrorMessageIgnored(payload) == UnknownError

ErrorMessage(payload) ==
    IF IsNil(payload.error) \/ IsNil(Val(payload.error).message)
    THEN UnknownError
    ELSE Val(Val(payload.error).message)

\* "error": f"Query failed: {error_msg}"
FailedResultAsTimeout(cid, payload) == FailureResult(cid, FailedOrTimeout)

FailedResult(cid, payload) == FailureResult(cid, QueryFailed(ErrorMessage(payload)))

\* message_result = self.send_message(conversation_id, question), the test on it,
\* and the two locals.
AskSend(responses) ==
    /\ pc = "ask"
    /\ \E raw \in responses :
         LET r == MakeRequest(raw)
             mr == SendMessage(conversation_id, r)
         IN  /\ calls' = Append(calls, Call("send", raw))
             /\ IF r.raised
                THEN /\ pc' = "raised"
                     /\ UNCHANGED <<message_result, actual_conversation_id,
                                    message_id, result>>
                ELSE /\ message_result' = mr
                     /\ IF IsNil(mr)
                        THEN /\ result' = Some(FailureResult(conversation_id, FailedToSend))
                             /\ pc' = "done"
                             /\ UNCHANGED <<actual_conversation_id, message_id>>
                        ELSE /\ actual_conversation_id' = Val(mr).conversation_id
                             /\ message_id' = Val(mr).id
                             /\ pc' = "start"
                             /\ UNCHANGED result
    /\ max_wait_time' = DefaultMaxWaitTime
    /\ poll_interval' = DefaultPollInterval
    /\ UNCHANGED <<elapsed, fetched, sleeps, response, conversation_id,
                   response_text, statement_id, botVars>>

\* Whether ask_question goes on to get_statement_result.
FetchesStatement(sid) == Truthy(sid)

\* From the return of wait_for_response to the statement request, or to the
\* return when there is none.
AskAfterWait ==
    /\ pc = "returned"
    /\ IF IsNil(response)
       THEN /\ result' = Some(FailureResult(actual_conversation_id, FailedOrTimeout))
            /\ pc' = "done"
            /\ UNCHANGED <<response_text, statement_id>>
       ELSE IF Val(response).status = "COMPLETED"
       THEN /\ response_text' = ExtractText(Val(response).attachments)
            /\ statement_id' = ExtractStatementId(Val(response).attachments)
            /\ IF FetchesStatement(statement_id')
               THEN pc' = "statement" /\ UNCHANGED result
               ELSE /\ pc' = "done"
                    /\ result' = Some(CompletedResult(actual_conversation_id, message_id,
                                                      response_text', Val(response), Nil))
       ELSE /\ result' = Some(FailedResult(actual_conversation_id, Val(response)))
            /\ pc' = "done"
            /\ UNCHANGED <<response_text, statement_id>>
    /\ UNCHANGED <<waitVars, calls, conversation_id, message_result,
                   actual_conversation_id, message_id, botVars>>

\* statement_result = self.get_statement_result(statement_id), and the return.
AskStatement ==
    /\ pc = "statement"
    /\ \E raw \in StatementResponses :
         LET r == MakeRequest(raw)
         IN  /\ calls' = Append(calls, Call("statement", raw))
             /\ IF r.raised
                THEN pc' = "raised" /\ UNCHANGED result
                ELSE /\ pc' = "done"
                     /\ result' = Some(CompletedResult(actual_conversation_id, message_id,
                                                       response_text, Val(response),
                                                       ResultData(r)))
    /\ UNCHANGED <<waitVars, conversation_id, message_result, actual_conversation_id,
                   message_id, response_text, statement_id, botVars>>

\* ----------------------------------------------------------------- SpecAsk
\* The "error" field of a payload: absent, without a message, with one.
ErrorFields ==
    {Nil, Some([message |-> Nil]), Some([message |-> Some(<<"e">>)]),
     Some([message |-> Some(FailedOrTimeout)])}

AskSendResponses ==
    {SendResponse("exc", None, None, None, Nil),
     SendResponse("empty", None, None, None, Nil)}
    \cup {SendResponse("dict", mid, id, cid, Nil) :
             mid \in {None, "m1"}, id \in {None, "m2"}, cid \in {None, "c2"}}
    \cup {SendResponse("dict", None, id, None, Some(NestedMessage(nid, cid))) :
             id \in {None, "m2"}, nid \in {None, "m1"}, cid \in {None, "c2"}}

AskPayloads ==
    {BarePayload("EXECUTING_QUERY")}
    \cup {Payload("COMPLETED", atts, c, Nil, <<>>) :
             atts \in {<<>>, <<TextAttachment(<<"a">>)>>,
                       <<QueryAttachment(<<"b">>, "s1")>>},
             c \in {Nil, Some(<<"a">>)}}
    \cup {Payload(st, <<>>, Nil, e, <<>>) :
             st \in {"FAILED", "CANCELLED"}, e \in ErrorFields}

InitAsk ==
    /\ BotIdle
    /\ HelpersIdle
    /\ bot = "SlackGenieBot"
    /\ pc = "ask"
    /\ conversation_id \in {None, "c1"}
    /\ message_result = Nil
    /\ actual_conversation_id = None
    /\ message_id = None
    /\ response_text = <<>>
    /\ statement_id = None
    /\ result = Nil
    /\ max_wait_time = DefaultMaxWaitTime
    /\ poll_interval = DefaultPollInterval
    /\ elapsed = 0
    /\ fetched = <<>>
    /\ sleeps = 0
    /\ response = Nil
    /\ calls = <<>>

NextAsk ==
    \/ AskSend(AskSendResponses)
    \/ WaitStart
    \/ WaitLoop
    \/ WaitFetch(StatusResponsesOf(AskPayloads))
    \/ WaitSleep
    \/ AskAfterWait
    \/ AskStatement

SpecAsk == InitAsk /\ [][NextAsk]_vars

\* ------------------------------------------------------------- SpecExtract
\* ask_question from the point where wait_for_response has returned a COMPLETED
\* payload, for every payload of up to MaxAttachments attachments.  An attachment
\* is of one kind: the API's attachment is a one-of.
ExtractAttachments ==
    {TextAttachment(c) : c \in {<<>>, <<"a">>, <<" ">>}}
    \cup {QueryAttachment(d, sid) : d \in {<<>>, <<"b">>}, sid \in {None, "s1"}}
    \cup {ChartAttachment}

AttachmentLists == UNION {[1..k -> ExtractAttachments] : k \in 0..MaxAttachments}

ExtractContents == {Nil, Some(<<>>), Some(<<"r">>), Some(<<" ", "r">>)}

ExtractPayloads ==
    {Payload("COMPLETED", atts, c, Nil, <<>>) :
        atts \in AttachmentLists, c \in ExtractContents}

InitExtract ==
    /\ BotIdle
    /\ HelpersIdle
    /\ bot = "SlackGenieBot"
    /\ pc = "returned"
    /\ response \in {Some(p) : p \in ExtractPayloads}
    /\ fetched = <<response>>
    /\ calls = <<Call("send", [kind |-> "dict"]), Call("status", [kind |-> "flat"])>>
    /\ conversation_id = None
    /\ message_result = Some([id |-> "m1", conversation_id |-> "c1"])
    /\ actual_conversation_id = "c1"
    /\ message_id = "m1"
    /\ response_text = <<>>
    /\ statement_id = None
    /\ result = Nil
    /\ max_wait_time = DefaultMaxWaitTime
    /\ poll_interval = DefaultPollInterval
    /\ elapsed = 0
    /\ sleeps = 0

NextExtract ==
    \/ AskAfterWait
    \/ AskStatement

SpecExtract == InitExtract /\ [][NextExtract]_vars

\* ------------------------------------------- ask_question, as one function
\* ask_question on conversation conv, when the submit request answers sraw,
\* wait_for_response returns wout (None or a terminal payload) and the statement
\* request, if made, answers straw.
AskQuestion(conv, sraw, wout, straw) ==
    LET mr == SendMessage(conv, MakeRequest(sraw))
    IN  IF IsNil(mr) THEN FailureResult(conv, FailedToSend)
        ELSE IF IsNil(wout) THEN FailureResult(Val(mr).conversation_id, FailedOrTimeout)
        ELSE IF Val(wout).status = "COMPLETED"
        THEN LET atts == Val(wout).attachments
                 sid == ExtractStatementId(atts)
             IN  CompletedResult(Val(mr).conversation_id, Val(mr).id,
                                 ExtractText(atts), Val(wout),
                                 IF FetchesStatement(sid)
                                 THEN ResultData(MakeRequest(straw)) ELSE Nil)
        ELSE FailedResult(Val(mr).conversation_id, Val(wout))

\* ---------------------------------------------------- send_message_feedback
\* str.upper() on the letters that the ratings are written with.
UpperOf ==
    [a |-> "A", e |-> "E", g |-> "G", i |-> "I", n |-> "N", o |-> "O", p |-> "P",
     s |-> "S", t |-> "T", v |-> "V"]

UpperChar(c) == IF c \in DOMAIN UpperOf THEN UpperOf[c] ELSE c

KeepCase(t) == t

Upper(t) == [i \in 1..Len(t) |-> UpperChar(t[i])]

\* The ratings of the docstring, "positive", "negative" or "none" in any case.
Positive == <<"p", "o", "s", "i", "t", "i", "v", "e">>
Negative == <<"n", "e", "g", "a", "t", "i", "v", "e">>
NoRating == <<"n", "o", "n", "e">>

Ratings ==
    {Positive, Negative, NoRating,
     <<"P", "o", "s", "i", "t", "i", "v", "e">>,
     <<"N", "E", "G", "A", "T", "I", "V", "E">>}

\* What api_client.do can answer to the feedback request: it raises, or returns
\* an empty dict, or a dict with content.
FeedbackResponse(kind) == [kind |-> kind]

FeedbackResponses == {FeedbackResponse(k) : k \in {"exc", "empty", "dict"}}

\* send_message_feedback (feedback_text left at None) when the request answers
\* raw: the rating transmitted in the payload, whether the call raised, and the
\* value returned.
SendMessageFeedback(conv, mid, rate, raw) ==
    [conversation_id |-> conv, message_id |-> mid, given |-> rate,
     rating |-> Upper(rate), answer |-> raw.kind,
     raised |-> MakeRequest(raw).raised,
     returned |-> ~IsNil(MakeRequest(raw).value)]

\* ------------------------------------------------------------ SpecFeedback
\* send_message_feedback called on its own, arguments drawn at each call.
FeedbackCall ==
    /\ pc = "idle"
    /\ Len(feedback_calls) < MaxFeedbackCalls
    /\ \E conv \in {"c1", "c2"}, mid \in {"m1", "m2"}, rate \in Ratings,
          raw \in FeedbackResponses :
         /\ feedback_calls' =
               Append(feedback_calls, SendMessageFeedback(conv, mid, rate, raw))
         /\ calls' = Append(calls, Call("feedback", raw))
    /\ UNCHANGED <<pc, waitVars, askVars, hpc, thread_ts, conversation_map,
                   message_feedback_map, sent, events, carried, bot,
                   conversation_history, msg_ts, rating, text, action_id, bot_id,
                   clicks, handlers, last_store, helperVars>>

InitFeedback ==
    /\ pc = "idle"
    /\ calls = <<>>
    /\ WaitIdle
    /\ AskIdle
    /\ BotIdle
    /\ HelpersIdle
    /\ bot = "SlackGenieBot"

NextFeedback == FeedbackCall

SpecFeedback == InitFeedback /\ [][NextFeedback]_vars

\* ----------------------------------------------- the events and the messages
\* An outbound Slack message (say / chat_postMessage): what it is, its text where
\* the model follows it, and whether the Slack call succeeded (FALSE: it raised).
Msg(kind, body, ok) == [kind |-> kind, text |-> body, ok |-> ok]

\* A chat_update call on the message ts.
Update(ts, body, ok) == [kind |-> "chat_update", ts |-> ts, text |-> body, ok |-> ok]

\* The two bot classes; a process runs one of them.
Bots == {"SlackGenieBot", "SlackModelServingBot"}

\* A mention token <@U...>, which the pattern <@[A-Z0-9]+> matches.
Mention == <<"<", "@", "U", ">">>

\* The characters of the class [A-Z0-9].
IdChars == {"U"}

\* The number of characters of the class in t from position i on.
RECURSIVE IdRun(_, _)
IdRun(t, i) == IF i <= Len(t) /\ t[i] \in IdChars THEN 1 + IdRun(t, i + 1) ELSE 0

\* The length of the match of <@[A-Z0-9]+> at the start of t, 0 if there is none.
MatchLen(t) ==
    IF Len(t) >= 4 /\ t[1] = "<" /\ t[2] = "@" /\ IdRun(t, 3) >= 1
       /\ Len(t) >= 3 + IdRun(t, 3) /\ t[3 + IdRun(t, 3)] = ">"
    THEN 3 + IdRun(t, 3) ELSE 0

\* re.sub with the pattern anchored: only the matches at the start go.
RECURSIVE RemoveLeadingMentions(_)
RemoveLeadingMentions(t) ==
    IF t # <<>> /\ MatchLen(t) > 0
    THEN RemoveLeadingMentions(SubSeq(t, MatchLen(t) + 1, Len(t))) ELSE t

\* re.sub(r'<@[A-Z0-9]+>', '', text): the matches found from left to right,
\* each search starting where the previous match ended.
RECURSIVE RemoveMentions(_)
RemoveMentions(t) ==
    IF t = <<>> THEN <<>>
    ELSE IF MatchLen(t) > 0 THEN RemoveMentions(SubSeq(t, MatchLen(t) + 1, Len(t)))
    ELSE <<Head(t)>> \o RemoveMentions(Tail(t))

\* text.strip() on the left only
CleanMessageTextLeft(t) == LStrip(RemoveMentions(t))

\* _clean_message_text, the same in both bots
CleanMessageText(t) == Strip(RemoveMentions(t))

\* The texts of the events: empty, blank, a bare mention, a question with and
\* without a mention.
EventTexts ==
    {<<>>, <<" ">>, Mention, Mention \o <<" ">>, <<"q">>, Mention \o <<" ", "q">>}

\* The events delivered to _handle_message: the thread key (thread_ts or ts),
\* whether the event carries a bot_id, and its text.
Events == [thread : Threads, bot_id : BOOLEAN, text : EventTexts]

\* if event.get("bot_id"): return
IgnoredNever(e) == FALSE

Ignored(e) == e.bot_id

\* if not text.strip():
IsBlankNever(t) == FALSE

IsBlank(t) == Strip(t) = <<>>

\* The control points at which no handler is running: nothing handled yet, or
\* the last handler returned (at the bot_id test, after the prompt for input,
\* at its end, at the end of _handle_feedback) or raised.
Finished == {"idle", "ignored", "prompted", "done", "feedback_done", "raised"}

\* The controls of the feedback prompt and the rating each handler passes.
Actions == {"feedback_positive", "feedback_negative"}

RatingOfPositive(action) == Positive

RatingOf(action) == IF action = "feedback_positive" THEN Positive ELSE Negative

\* ----------------------------------------------- SlackGenieBot._handle_message
FailureMarker == <<":x: ">>
QueryExecuted == <<"Query executed successfully">>

\* _format_response
FormatResponse(res) ==
    IF ~res.success
    THEN FailureMarker \o (IF IsNil(res.error) THEN UnknownError ELSE Val(res.error))
    ELSE IF IsNil(res.response) \/ Val(res.response) = <<>> THEN QueryExecuted
    ELSE Val(res.response)

\* self.conversation_map.get(thread_ts)
LookupNothing(map, key) == None

Lookup(map, key) == map[key]

\* if result.get("conversation_id"): self.conversation_map[thread_ts] = ...
StoreOnSuccessOnly(map, key, res) ==
    IF res.success /\ Truthy(res.conversation_id)
    THEN [map EXCEPT ![key] = res.conversation_id] ELSE map

\* self.conversation_map.setdefault(thread_ts, ...): the first write would win
StoreFirstWins(map, key, res) ==
    IF Truthy(res.conversation_id) /\ map[key] = None
    THEN [map EXCEPT ![key] = res.conversation_id] ELSE map

\* The assignment of line 120 without the test of line 119.
StoreAnyId(map, key, res) == [map EXCEPT ![key] = res.conversation_id]

\* The id written under every thread key.
StoreUnderEveryKey(map, key, res) ==
    IF Truthy(res.conversation_id)
    THEN [k \in DOMAIN map |-> res.conversation_id] ELSE map

StoreConversation(map, key, res) ==
    IF Truthy(res.conversation_id) THEN [map EXCEPT ![key] = res.conversation_id] ELSE map

\* The backend's answers in Spec.
BotSendResponses ==
    {SendResponse("exc", None, None, None, Nil)}
    \cup {SendResponse("dict", "m1", None, cid, Nil) : cid \in {None, "", "c1", "c2"}}
    \cup {SendResponse("dict", None, None, None, Some(NestedMessage("m1", cid))) :
             cid \in {None, "c2"}}

BotPayloads ==
    {Payload("COMPLETED", atts, Some(<<"r">>), Nil, sq) :
        atts \in {<<>>, <<QueryAttachment(<<"b">>, "s1")>>,
                  <<QueryAttachment(<<"b">>, "s1"), ChartAttachment, ChartAttachment>>},
        sq \in {<<>>, <<"q">>}}
    \cup {Payload("FAILED", <<>>, Some(<<"r">>), Nil, <<>>)}

BotWaitOutcomes == {Nil} \cup {Some(p) : p \in BotPayloads}

BotStatementResponses ==
    {StatementResponse("exc", Nil, Nil),
     StatementResponse("dict", Some("rows"), Some("columns"))}

\* What no step of Spec changes: the locals of the backend client's calls, which
\* the handlers run as whole functions, and the worker threads of SpecConc.
stepVars == <<pc, waitVars, message_result, actual_conversation_id, message_id,
              response_text, statement_id, handlers, last_store, helperVars>>

\* The same without the messages list, which the steps of SlackModelServingBot
\* that call the endpoint or begin a pass write.
stepVarsButMessages ==
    <<pc, waitVars, message_result, actual_conversation_id, message_id,
      response_text, statement_id, handlers, last_store, column_names, data_array,
      row_count, table_text, result_message, event_text, startVars, heapVars,
      system_prompt>>

\* Lines 88-102: the event's fields, the bot_id test, the cleaned text, the reply
\* to a blank text.  The histories of the previous handler run are dropped.
HandleEvent ==
    /\ bot = "SlackGenieBot"
    /\ hpc \in Finished
    /\ events < MaxEvents
    /\ \E e \in Events :
         /\ thread_ts' = e.thread
         /\ bot_id' = e.bot_id
         /\ IF Ignored(e)
            THEN /\ text' = e.text
                 /\ hpc' = "ignored"
                 /\ sent' = <<>>
            ELSE /\ text' = CleanMessageText(e.text)
                 /\ IF IsBlank(text')
                    THEN \E ok \in BOOLEAN :
                           /\ sent' = <<Msg("prompt_for_input", <<>>, ok)>>
                           /\ hpc' = IF ok THEN "prompted" ELSE "fault"
                    ELSE /\ hpc' = "indicator"
                         /\ sent' = <<>>
    /\ events' = events + 1
    /\ conversation_id' = None
    /\ result' = Nil
    /\ calls' = <<>>
    /\ feedback_calls' = <<>>
    /\ msg_ts' = None
    /\ rating' = None
    /\ action_id' = None
    /\ UNCHANGED <<stepVars, conversation_map, message_feedback_map, carried, bot,
                   conversation_history, clicks>>

\* The pass with the "Thinking..." message left out.
HandleIndicatorSkipped ==
    /\ bot = "SlackGenieBot"
    /\ hpc = "indicator"
    /\ hpc' = "lookup"
    /\ UNCHANGED <<stepVars, calls, askVars, thread_ts, text, conversation_map,
                   message_feedback_map, events, carried, bot, conversation_history,
                   msg_ts, rating, action_id, feedback_calls, bot_id,
                   clicks, sent>>

\* Lines 105-109: the "Thinking..." message, inside the handler's try.
HandleIndicator ==
    /\ bot = "SlackGenieBot"
    /\ hpc = "indicator"
    /\ \E ok \in BOOLEAN :
         /\ sent' = Append(sent, Msg("indicator", <<>>, ok))
         /\ hpc' = IF ok THEN "lookup" ELSE "fault"
    /\ UNCHANGED <<stepVars, calls, askVars, thread_ts, text, conversation_map,
                   message_feedback_map, events, carried, bot, conversation_history,
                   msg_ts, rating, action_id, feedback_calls, bot_id,
                   clicks>>

\* Line 112
HandleLookup ==
    /\ hpc = "lookup"
    /\ conversation_id' = Lookup(conversation_map, thread_ts)
    /\ hpc' = "ask"
    /\ UNCHANGED <<stepVars, calls, result, thread_ts, text, conversation_map,
                   message_feedback_map, sent, events, carried, bot,
                   conversation_history, msg_ts, rating, action_id, feedback_calls, bot_id,
                   clicks>>

\* Line 116
HandleAsk ==
    /\ bot = "SlackGenieBot"
    /\ hpc = "ask"
    /\ \E sraw \in BotSendResponses, wout \in BotWaitOutcomes,
          straw \in BotStatementResponses :
         result' = Some(AskQuestion(conversation_id, sraw, wout, straw))
    /\ calls' = Append(calls, [op |-> "ask_question", raised |-> FALSE])
    /\ hpc' = "store"
    /\ UNCHANGED <<stepVars, conversation_id, thread_ts, text, conversation_map,
                   message_feedback_map, sent, events, carried, bot,
                   conversation_history, msg_ts, rating, action_id, feedback_calls, bot_id,
                   clicks>>

\* Lines 119-120
HandleStore ==
    /\ bot = "SlackGenieBot"
    /\ hpc = "store"
    /\ conversation_map' = StoreConversation(conversation_map, thread_ts, Val(result))
    /\ carried' = IF Val(result).conversation_id \notin {None, ""}
                  THEN [carried EXCEPT ![thread_ts] = Val(result).conversation_id]
                  ELSE carried
    /\ hpc' = "answer"
    /\ UNCHANGED <<stepVars, calls, askVars, thread_ts, text, message_feedback_map,
                   sent, events, bot, conversation_history, msg_ts, rating,
                   action_id, feedback_calls, bot_id,
                   clicks>>

\* The answer never sent.
HandleAnswerSilent ==
    /\ hpc = "answer"
    /\ hpc' = "table"
    /\ UNCHANGED <<stepVars, calls, askVars, thread_ts, text, conversation_map,
                   message_feedback_map, events, carried, bot, conversation_history,
                   msg_ts, rating, action_id, feedback_calls, bot_id,
                   clicks, sent>>

\* Lines 123-126: the primary answer, sent by say inside the handler's try.
HandleAnswer ==
    /\ bot = "SlackGenieBot"
    /\ hpc = "answer"
    /\ \E ok \in BOOLEAN :
         /\ sent' = Append(sent, Msg("answer", FormatResponse(Val(result)), ok))
         /\ hpc' = IF ok THEN "table" ELSE "fault"
    /\ UNCHANGED <<stepVars, calls, askVars, thread_ts, text, conversation_map,
                   message_feedback_map, events, carried, bot, conversation_history,
                   msg_ts, rating, action_id, feedback_calls, bot_id,
                   clicks>>

\* if result_data: ... if data.get("data_array"): the table is sent
SendsTable(res) == ~IsNil(res.result_data) /\ ~IsNil(Val(res.result_data).data)

\* Lines 129-133 and _send_query_results, which logs a failed send and returns.
HandleTable ==
    /\ hpc = "table"
    /\ IF SendsTable(Val(result))
       THEN \E ok \in BOOLEAN : sent' = Append(sent, Msg("table", <<>>, ok))
       ELSE UNCHANGED sent
    /\ hpc' = "attachments"
    /\ UNCHANGED <<stepVars, calls, askVars, thread_ts, text, conversation_map,
                   message_feedback_map, events, carried, bot, conversation_history,
                   msg_ts, rating, action_id, feedback_calls, bot_id,
                   clicks>>

\* _send_attachments: one message per chart attachment with its url (text and
\* query attachments have no "type" and post nothing); the try is inside the
\* loop, so a failed send is logged and the loop goes on.
RECURSIVE AttachmentMsgsUntilFailure(_, _)
AttachmentMsgsUntilFailure(atts, oks) ==
    IF atts = <<>> THEN <<>>
    ELSE IF Head(atts).kind # "chart" THEN AttachmentMsgsUntilFailure(Tail(atts), Tail(oks))
    ELSE <<Msg("chart", <<>>, Head(oks))>>
         \o (IF Head(oks) THEN AttachmentMsgsUntilFailure(Tail(atts), Tail(oks)) ELSE <<>>)

RECURSIVE AttachmentMsgs(_, _)
AttachmentMsgs(atts, oks) ==
    IF atts = <<>> THEN <<>>
    ELSE (IF Head(atts).kind = "chart" THEN <<Msg("chart", <<>>, Head(oks))>> ELSE <<>>)
         \o AttachmentMsgs(Tail(atts), Tail(oks))

\* The outcomes of the sends of _send_attachments, one per attachment that sends.
SendOutcomes(atts) ==
    {oks \in [1..Len(atts) -> BOOLEAN] :
        \A i \in 1..Len(atts) : atts[i].kind # "chart" => oks[i]}

\* Lines 136-138
HandleAttachments ==
    /\ hpc = "attachments"
    /\ \E oks \in SendOutcomes(Val(result).attachments) :
         sent' = sent \o AttachmentMsgs(Val(result).attachments, oks)
    /\ hpc' = "suggested"
    /\ UNCHANGED <<stepVars, calls, askVars, thread_ts, text, conversation_map,
                   message_feedback_map, events, carried, bot, conversation_history,
                   msg_ts, rating, action_id, feedback_calls, bot_id,
                   clicks>>

\* Lines 141-143 and _send_suggested_questions, which logs a failed send.
HandleSuggested ==
    /\ hpc = "suggested"
    /\ IF Val(result).suggested_questions # <<>>
       THEN \E ok \in BOOLEAN :
              sent' = Append(sent, Msg("suggested_questions", <<>>, ok))
       ELSE UNCHANGED sent
    /\ hpc' = "feedback"
    /\ UNCHANGED <<stepVars, calls, askVars, thread_ts, text, conversation_map,
                   message_feedback_map, events, carried, bot, conversation_history,
                   msg_ts, rating, action_id, feedback_calls, bot_id,
                   clicks>>

\* if result.get("success"): ... if conversation_id and message_id:
SendsFeedbackPromptAlways(res) == TRUE

\* The test on result.get("success") left out.
SendsFeedbackPromptOnFailure(res) == Truthy(res.conversation_id)

SendsFeedbackPrompt(res) ==
    res.success /\ Truthy(res.conversation_id) /\ Truthy(res.message_id)

\* What _send_feedback_buttons returns for the prompt of the n-th event: None
\* when the send raised, else Slack's response, with the ts of the new message
\* or without one.
FeedbackMsgs(n) == {Nil, Some([ts |-> None]), Some([ts |-> Ts(n)])}

\* if feedback_msg: msg_ts = feedback_msg.get("ts"); if msg_ts: the entry
StoreFeedback(map, feedback_msg, res) ==
    IF ~IsNil(feedback_msg) /\ Truthy(Val(feedback_msg).ts)
    THEN [map EXCEPT ![Val(feedback_msg).ts] =
                        Some(<<res.conversation_id, res.message_id>>)]
    ELSE map

\* Lines 146-163 and _send_feedback_buttons
HandleFeedbackPrompt ==
    /\ hpc = "feedback"
    /\ IF SendsFeedbackPrompt(Val(result))
       THEN \E feedback_msg \in FeedbackMsgs(events) :
              /\ sent' = Append(sent, [kind |-> "feedback_prompt", text |-> <<>>,
                                       ok |-> ~IsNil(feedback_msg),
                                       ts |-> IF IsNil(feedback_msg) THEN None
                                              ELSE Val(feedback_msg).ts])
              /\ message_feedback_map' =
                    StoreFeedback(message_feedback_map, feedback_msg, Val(result))
       ELSE UNCHANGED <<sent, message_feedback_map>>
    /\ hpc' = "done"
    /\ UNCHANGED <<stepVars, calls, askVars, thread_ts, text, conversation_map,
                   events, carried, bot, conversation_history, msg_ts, rating,
                   action_id, feedback_calls, bot_id,
                   clicks>>

\* Lines 165-167: the apology, sent by say inside the except block; when it
\* cannot be sent either, the exception leaves the handler.
HandleFault ==
    /\ bot = "SlackGenieBot"
    /\ hpc = "fault"
    /\ \E ok \in BOOLEAN :
         /\ sent' = Append(sent, Msg("apology", <<>>, ok))
         /\ hpc' = IF ok THEN "done" ELSE "raised"
    /\ UNCHANGED <<stepVars, calls, askVars, thread_ts, text, conversation_map,
                   message_feedback_map, events, carried, bot, conversation_history,
                   msg_ts, rating, action_id, feedback_calls, bot_id,
                   clicks>>

\* --------------------------------------------- SlackGenieBot._handle_feedback
\* The notices that replace the feedback prompt.
UnableToSubmit == <<":warning: ", "_Unable to submit feedback. Please try asking a new question._">>
FailedToSubmit == <<":x: ", "_Failed to submit feedback. Please try again._">>

ThanksForFeedback(rate) ==
    <<IF rate = Positive THEN ":+1:" ELSE ":-1:", " _Thanks for your feedback!_">>

\* self.message_feedback_map.get(msg_ts)
FeedbackInfoFirst(map, ts) ==
    IF \E k \in DOMAIN map : ~IsNil(map[k])
    THEN map[CHOOSE k \in DOMAIN map : ~IsNil(map[k])] ELSE Nil

FeedbackInfo(map, ts) == IF ts \in DOMAIN map THEN map[ts] ELSE Nil

\* The map after the lookup: get reads the entry and leaves it in place.
AfterPop(map, ts) == IF ts \in DOMAIN map THEN [map EXCEPT ![ts] = Nil] ELSE map

AfterGet(map, ts) == map

\* handle_positive_feedback / handle_negative_feedback and _handle_feedback as
\* one step: the click on the control action of the message ts (None: the body
\* names no message), the lookup, the call of send_message_feedback, the update
\* of the message.  A chat_update that raises is logged by the except block.
HandleFeedback ==
    /\ bot = "SlackGenieBot"
    /\ hpc \in Finished
    /\ events < MaxEvents
    /\ \E ts \in {Ts(n) : n \in 1..MaxEvents} \cup {None}, action \in Actions, ok \in BOOLEAN :
         /\ msg_ts' = ts
         /\ action_id' = action
         /\ rating' = RatingOf(action)
         /\ LET feedback_info == FeedbackInfo(message_feedback_map, ts)
            IN  IF IsNil(feedback_info)
                THEN /\ feedback_calls' = <<>>
                     /\ calls' = <<>>
                     /\ sent' = <<Update(ts, UnableToSubmit, ok)>>
                ELSE \E raw \in FeedbackResponses :
                       LET call == SendMessageFeedback(Val(feedback_info)[1],
                                                       Val(feedback_info)[2],
                                                       rating', raw)
                       IN  /\ feedback_calls' = <<call>>
                           /\ calls' = <<Call("feedback", raw)>>
                           /\ sent' = <<Update(ts, IF call.returned
                                                   THEN ThanksForFeedback(rating')
                                                   ELSE FailedToSubmit, ok)>>
    /\ hpc' = "feedback_done"
    /\ events' = events + 1
    /\ bot_id' = FALSE
    /\ thread_ts' = None
    /\ text' = <<>>
    /\ conversation_id' = None
    /\ result' = Nil
    /\ message_feedback_map' = AfterGet(message_feedback_map, msg_ts')
    /\ clicks' =
          IF msg_ts' \in DOMAIN clicks
             /\ (~IsNil(message_feedback_map[msg_ts']) \/ clicks[msg_ts'].n > 0)
          THEN [clicks EXCEPT ![msg_ts'] =
                   [n |-> @.n + 1,
                    calls |-> @.calls \o [i \in 1..Len(feedback_calls') |->
                                            <<feedback_calls'[i].conversation_id,
                                              feedback_calls'[i].message_id>>]]]
          ELSE clicks
    /\ UNCHANGED <<stepVars, conversation_map, carried, bot, conversation_history>>

\* ---------------------------------------- SlackModelServingBot._handle_message
FailedEndpoint == <<"Failed to get response from endpoint">>
ResponseGenerated == <<"Response generated successfully">>

\* What send_message of the model-serving client returns: None (the query raised
\* or the response has no known structure), or the content with the token count
\* of the usage statistics (Nil: no statistics).
ServingMessages ==
    {Nil} \cup {Some([content |-> c, total_tokens |-> n]) :
                   c \in {<<>>, <<"r">>}, n \in {Nil, Some(0), Some(7)}}

\* DatabricksModelServingClient.ask_question, given what send_message returned
ServingAskQuestionNoError(message) ==
    IF IsNil(message)
    THEN [success |-> FALSE, response |-> Nil, error |-> Nil, total_tokens |-> Nil]
    ELSE [success |-> TRUE, response |-> Some(Val(message).content), error |-> Nil,
          total_tokens |-> Val(message).total_tokens]

ServingAskQuestion(message) ==
    IF IsNil(message)
    THEN [success |-> FALSE, response |-> Nil, error |-> Some(FailedEndpoint),
          total_tokens |-> Nil]
    ELSE [success |-> TRUE, response |-> Some(Val(message).content), error |-> Nil,
          total_tokens |-> Val(message).total_tokens]

\* _format_response
ServingFormatResponse(res) ==
    IF ~res.success
    THEN FailureMarker \o (IF IsNil(res.error) THEN UnknownError ELSE Val(res.error))
    ELSE IF IsNil(res.response) \/ Val(res.response) = <<>> THEN ResponseGenerated
    ELSE Val(res.response)

Turn(role, content) == [role |-> role, content |-> content]

\* Lines 68-82
ServingEvent ==
    /\ bot = "SlackModelServingBot"
    /\ hpc \in Finished
    /\ events < MaxEvents
    /\ \E e \in Events :
         /\ thread_ts' = e.thread
         /\ bot_id' = e.bot_id
         /\ IF Ignored(e)
            THEN /\ text' = e.text
                 /\ hpc' = "ignored"
                 /\ sent' = <<>>
            ELSE /\ text' = CleanMessageText(e.text)
                 /\ IF IsBlank(text')
                    THEN \E ok \in BOOLEAN :
                           /\ sent' = <<Msg("prompt_for_input", <<>>, ok)>>
                           /\ hpc' = IF ok THEN "prompted" ELSE "fault"
                    ELSE /\ hpc' = "indicator"
                         /\ sent' = <<>>
    /\ events' = events + 1
    /\ result' = Nil
    /\ calls' = <<>>
    /\ messages' = <<>>
    /\ UNCHANGED <<stepVarsButMessages, conversation_id, conversation_map,
                   message_feedback_map, carried, bot, conversation_history, msg_ts,
                   rating, action_id, feedback_calls, clicks>>

\* Lines 85-89: the "thinking" message, inside the handler's try.
ServingIndicator ==
    /\ bot = "SlackModelServingBot"
    /\ hpc = "indicator"
    /\ \E ok \in BOOLEAN :
         /\ sent' = Append(sent, Msg("indicator", <<>>, ok))
         /\ hpc' = IF ok THEN "ask" ELSE "fault"
    /\ UNCHANGED <<stepVars, calls, askVars, thread_ts, text, conversation_map,
                   message_feedback_map, events, carried, bot, conversation_history,
                   msg_ts, rating, action_id, feedback_calls, bot_id,
                   clicks>>

\* msg.get('role', '').upper() on the role strings
RoleUpper(role) ==
    CASE role = "user" -> "USER"
      [] role = "assistant" -> "ASSISTANT"
      [] role = "system" -> "SYSTEM"
      [] OTHER -> role

\* ask_question, lines 242-261: the dicts of the history as ChatMessage objects,
\* the members of ChatMessageRole written by their values; a role that is none
\* of the three becomes USER.
RoleOfAlwaysUser(role) == "user"

RoleOf(role) ==
    LET role_str == RoleUpper(role)
    IN  IF role_str = "USER" THEN "user"
        ELSE IF role_str = "ASSISTANT" THEN "assistant"
        ELSE IF role_str = "SYSTEM" THEN "system"
        ELSE "user"

ChatHistory(history) ==
    [i \in 1..Len(history) |-> Turn(RoleOf(history[i].role), history[i].content)]

\* send_message, lines 137-148: the messages list of the query.
SendMessageList(message, history, prompt) ==
    (IF ~IsNil(prompt) /\ Val(prompt) # <<>>
     THEN <<Turn("system", Val(prompt))>> ELSE <<>>)
    \o history
    \o <<Turn("user", message)>>

\* Lines 92-100: the thread's history is read and the model is asked.
ServingAsk ==
    /\ bot = "SlackModelServingBot"
    /\ hpc = "ask"
    /\ \E message \in ServingMessages : result' = Some(ServingAskQuestion(message))
    /\ messages' = SendMessageList(text, ChatHistory(conversation_history[thread_ts]),
                                   system_prompt)
    /\ calls' = Append(calls, [op |-> "ask_question", raised |-> FALSE])
    /\ hpc' = "store"
    /\ UNCHANGED <<stepVarsButMessages, conversation_id, thread_ts, text, conversation_map,
                   message_feedback_map, sent, events, carried, bot,
                   conversation_history, msg_ts, rating, action_id, feedback_calls, bot_id,
                   clicks>>

\* Lines 103-114: on success the user turn and the assistant turn are appended
\* to the thread's list (result.get("response", "") is the empty text when the
\* result has no response).
ExchangeAlways(history, question, res) ==
    history \o <<Turn("user", question),
                 Turn("assistant", IF IsNil(res.response) THEN <<>>
                                   ELSE Val(res.response))>>

Exchange(history, question, res) ==
    IF res.success
    THEN history \o <<Turn("user", question),
                      Turn("assistant", IF IsNil(res.response) THEN <<>>
                                        ELSE Val(res.response))>>
    ELSE history

\* Lines 103-117: on success the two turns are appended and the list stored.
ServingStore ==
    /\ bot = "SlackModelServingBot"
    /\ hpc = "store"
    /\ conversation_history' =
          [conversation_history EXCEPT ![thread_ts] = Exchange(@, text, Val(result))]
    /\ hpc' = "answer"
    /\ UNCHANGED <<stepVars, calls, askVars, thread_ts, text, conversation_map,
                   message_feedback_map, sent, events, carried, bot, msg_ts, rating,
                   action_id, feedback_calls, bot_id,
                   clicks>>

\* Lines 120-123: the answer, sent by say inside the handler's try.
ServingAnswer ==
    /\ bot = "SlackModelServingBot"
    /\ hpc = "answer"
    /\ \E ok \in BOOLEAN :
         /\ sent' = Append(sent, Msg("answer", ServingFormatResponse(Val(result)), ok))
         /\ hpc' = IF ok THEN "usage" ELSE "fault"
    /\ UNCHANGED <<stepVars, calls, askVars, thread_ts, text, conversation_map,
                   message_feedback_map, events, carried, bot, conversation_history,
                   msg_ts, rating, action_id, feedback_calls, bot_id,
                   clicks>>

\* if usage and usage.get("total_tokens"):
SendsUsage(res) == ~IsNil(res.total_tokens) /\ Val(res.total_tokens) # 0

\* Lines 126-128 and _send_usage_info, which logs a failed send and returns.
ServingUsage ==
    /\ hpc = "usage"
    /\ IF SendsUsage(Val(result))
       THEN \E ok \in BOOLEAN : sent' = Append(sent, Msg("usage", <<>>, ok))
       ELSE UNCHANGED sent
    /\ hpc' = "done"
    /\ UNCHANGED <<stepVars, calls, askVars, thread_ts, text, conversation_map,
                   message_feedback_map, events, carried, bot, conversation_history,
                   msg_ts, rating, action_id, feedback_calls, bot_id,
                   clicks>>

\* Lines 130-132: the apology, sent by say inside the except block.
ServingFault ==
    /\ bot = "SlackModelServingBot"
    /\ hpc = "fault"
    /\ \E ok \in BOOLEAN :
         /\ sent' = Append(sent, Msg("apology", <<>>, ok))
         /\ hpc' = IF ok THEN "done" ELSE "raised"
    /\ UNCHANGED <<stepVars, calls, askVars, thread_ts, text, conversation_map,
                   message_feedback_map, events, carried, bot, conversation_history,
                   msg_ts, rating, action_id, feedback_calls, bot_id,
                   clicks>>

\* -------------------------------------------------------------------- Spec
\* One bot, SlackGenieBot or SlackModelServingBot, handling one event after
\* another.
Init ==
    /\ pc = "idle"
    /\ calls = <<>>
    /\ WaitIdle
    /\ AskIdle
    /\ BotIdle
    /\ HelpersIdle
    /\ bot \in Bots

Next ==
    \/ HandleEvent
    \/ HandleIndicator
    \/ HandleLookup
    \/ HandleAsk
    \/ HandleStore
    \/ HandleAnswer
    \/ HandleTable
    \/ HandleAttachments
    \/ HandleSuggested
    \/ HandleFeedbackPrompt
    \/ HandleFault
    \/ HandleFeedback
    \/ ServingEvent
    \/ ServingIndicator
    \/ ServingAsk
    \/ ServingStore
    \/ ServingAnswer
    \/ ServingUsage
    \/ ServingFault

Spec == Init /\ [][Next]_vars

\* ------------------------------------------------------------- SpecServing
\* SlackModelServingBot alone, with or without a system prompt (None, the empty
\* string, a text), handling one event after another.
InitServing ==
    /\ pc = "idle"
    /\ calls = <<>>
    /\ WaitIdle
    /\ AskIdle
    /\ BotIdle
    /\ StartIdle
    /\ HeapIdle
    /\ column_names = <<>>
    /\ data_array = <<>>
    /\ row_count = Nil
    /\ table_text = Nil
    /\ result_message = Nil
    /\ event_text = <<>>
    /\ bot = "SlackModelServingBot"
    /\ system_prompt \in {Nil, Some(<<>>), Some(<<"p">>)}
    /\ messages = <<>>

NextServing ==
    \/ ServingEvent
    \/ ServingIndicator
    \/ ServingAsk
    \/ ServingStore
    \/ ServingAnswer
    \/ ServingUsage
    \/ ServingFault

SpecServing == InitServing /\ [][NextServing]_vars

\* ---------------------------------------------------------------- SpecConc
\* SlackGenieBot with two worker threads of the listener pool, each handling one
\* event, their steps interleaved; the shared state is conversation_map and
\* message_feedback_map.  A step is one access to the shared maps or one backend
\* request; the Slack sends, which touch no shared state, are taken to succeed
\* and are part of the step they follow.
soloVars == <<pc, waitVars, calls, askVars, hpc, thread_ts, sent, events, carried,
              bot, conversation_history, msg_ts, rating, feedback_calls, text,
              action_id, bot_id, clicks, helperVars>>

\* The backend's answers in SpecConc.
ConcSendResponses ==
    {SendResponse("exc", None, None, None, Nil)}
    \cup {SendResponse("dict", "m1", None, cid, Nil) : cid \in {None, "c1", "c2"}}

ConcWaitOutcomes ==
    {Nil, Some(Payload("COMPLETED", <<>>, Some(<<"r">>), Nil, <<>>))}

\* time.sleep(poll_interval) suspends the calling thread only, and no lock is
\* taken anywhere: no step of a handler waits for another handler.
BlockedBySleeper(h) == \E g \in Handlers \ {h} : handlers[g].hpc = "sleep"

Blocked(h) == FALSE

\* The ts of the feedback prompt that the pass run by h delivers.
PromptTs(h) == IF h = "h1" THEN Ts(1) ELSE Ts(2)

\* Lines 88-109: a message event with a question is accepted, the indicator sent.
ConcReceive(h) ==
    /\ handlers[h].hpc = "idle"
    /\ ~Blocked(h)
    /\ \E k \in Threads :
         handlers' = [handlers EXCEPT ![h] =
            [@ EXCEPT !.hpc = "lookup", !.kind = "message", !.thread_ts = k,
                      !.overtook = \E g \in Handlers \ {h} :
                                      handlers[g].hpc = "sleep"]]
    /\ UNCHANGED <<soloVars, conversation_map, message_feedback_map, last_store>>

\* Line 112
ConcLookup(h) ==
    /\ handlers[h].hpc = "lookup"
    /\ ~Blocked(h)
    /\ handlers' = [handlers EXCEPT ![h] =
          [@ EXCEPT !.hpc = "submit",
                    !.conversation_id = Lookup(conversation_map, handlers[h].thread_ts)]]
    /\ UNCHANGED <<soloVars, conversation_map, message_feedback_map, last_store>>

\* ask_question, lines 292-300: send_message, and the failure result when it
\* returned nothing.
ConcSubmit(h) ==
    /\ handlers[h].hpc = "submit"
    /\ ~Blocked(h)
    /\ \E sraw \in ConcSendResponses :
         LET mr == SendMessage(handlers[h].conversation_id, MakeRequest(sraw))
         IN  handlers' = [handlers EXCEPT ![h] =
                IF IsNil(mr)
                THEN [@ EXCEPT !.hpc = "store", !.send_response = Some(sraw),
                               !.result = Some(FailureResult(handlers[h].conversation_id,
                                                             FailedToSend))]
                ELSE [@ EXCEPT !.hpc = "poll", !.send_response = Some(sraw),
                               !.message_result = mr]]
    /\ UNCHANGED <<soloVars, conversation_map, message_feedback_map, last_store>>

\* wait_for_response, one status fetch: the message is still in progress and the
\* thread goes to sleep, or the wait ends (a terminal payload, or None for a
\* failed fetch or the timeout) and ask_question builds its result.
ConcPoll(h) ==
    /\ handlers[h].hpc = "poll"
    /\ ~Blocked(h)
    /\ \/ /\ handlers[h].polls < MaxPolls
          /\ handlers' = [handlers EXCEPT ![h] =
                [@ EXCEPT !.hpc = "sleep", !.polls = @ + 1]]
       \/ \E wout \in ConcWaitOutcomes :
            handlers' = [handlers EXCEPT ![h] =
               [@ EXCEPT !.hpc = "store",
                         !.result = Some(AskQuestion(handlers[h].conversation_id,
                                                     Val(handlers[h].send_response),
                                                     wout,
                                                     StatementResponse("exc", Nil, Nil)))]]
    /\ UNCHANGED <<soloVars, conversation_map, message_feedback_map, last_store>>

\* Line 251: the sleep between two status fetches is over.
ConcSleep(h) ==
    /\ handlers[h].hpc = "sleep"
    /\ ~Blocked(h)
    /\ handlers' = [handlers EXCEPT ![h] = [@ EXCEPT !.hpc = "poll"]]
    /\ UNCHANGED <<soloVars, conversation_map, message_feedback_map, last_store>>

\* Lines 119-120
ConcStore(h) ==
    /\ handlers[h].hpc = "store"
    /\ ~Blocked(h)
    /\ conversation_map' = StoreConversation(conversation_map, handlers[h].thread_ts,
                                             Val(handlers[h].result))
    /\ last_store' = IF Truthy(Val(handlers[h].result).conversation_id)
                     THEN h ELSE last_store
    /\ handlers' = [handlers EXCEPT ![h] = [@ EXCEPT !.hpc = "respond"]]
    /\ UNCHANGED <<soloVars, message_feedback_map>>

\* Lines 123-163: the sends of the pass and, when the feedback prompt is
\* delivered, its entry in message_feedback_map.
ConcRespond(h) ==
    /\ handlers[h].hpc = "respond"
    /\ ~Blocked(h)
    /\ message_feedback_map' =
          IF SendsFeedbackPrompt(Val(handlers[h].result))
          THEN StoreFeedback(message_feedback_map, Some([ts |-> PromptTs(h)]),
                             Val(handlers[h].result))
          ELSE message_feedback_map
    /\ handlers' = [handlers EXCEPT ![h] = [@ EXCEPT !.hpc = "done"]]
    /\ UNCHANGED <<soloVars, conversation_map, last_store>>

\* _handle_feedback as one step: a click on the message ts, the lookup in
\* message_feedback_map, the backend call and the update of the message.
ConcFeedback(h) ==
    /\ handlers[h].hpc = "idle"
    /\ ~Blocked(h)
    /\ \E ts \in DOMAIN message_feedback_map :
         handlers' = [handlers EXCEPT ![h] =
            [@ EXCEPT !.hpc = "done", !.kind = "feedback", !.msg_ts = ts,
                      !.result = FeedbackInfo(message_feedback_map, ts),
                      !.overtook = \E g \in Handlers \ {h} :
                                      handlers[g].hpc = "sleep"]]
    /\ UNCHANGED <<soloVars, conversation_map, message_feedback_map, last_store>>

ConcStep(h) ==
    \/ ConcReceive(h)
    \/ ConcLookup(h)
    \/ ConcSubmit(h)
    \/ ConcPoll(h)
    \/ ConcSleep(h)
    \/ ConcStore(h)
    \/ ConcRespond(h)
    \/ ConcFeedback(h)

\* The bot has handled earlier events or none: thread t1 may have a conversation
\* and one earlier prompt may be recorded.
InitConc ==
    /\ pc = "idle"
    /\ calls = <<>>
    /\ WaitIdle
    /\ AskIdle
    /\ hpc = "idle"
    /\ thread_ts = None
    /\ conversation_map \in {[k \in Threads |-> None],
                             [k \in Threads |-> IF k = "t1" THEN "c0" ELSE None]}
    /\ message_feedback_map \in
          {[ts \in {Ts(n) : n \in 1..MaxEvents} |-> Nil],
           [ts \in {Ts(n) : n \in 1..MaxEvents} |->
               IF ts = Ts(MaxEvents) THEN Some(<<"c0", "m0">>) ELSE Nil]}
    /\ sent = <<>>
    /\ events = 0
    /\ carried = [k \in Threads |-> None]
    /\ bot = "SlackGenieBot"
    /\ conversation_history = [k \in Threads |-> <<>>]
    /\ msg_ts = None
    /\ rating = None
    /\ feedback_calls = <<>>
    /\ text = <<>>
    /\ action_id = None
    /\ bot_id = FALSE
    /\ clicks = [ts \in {Ts(n) : n \in 1..MaxEvents} |-> [n |-> 0, calls |-> <<>>]]
    /\ handlers = [h \in Handlers |-> IdleHandler]
    /\ last_store = None
    /\ HelpersIdle

NextConc == \E h \in Handlers : ConcStep(h)

SpecConc == InitConc /\ [][NextConc]_vars

\* The scheduler lets worker thread h2 run whenever it can; nothing is assumed of
\* h1, which may stay suspended for ever.
FairSpecConc == SpecConc /\ WF_vars(ConcStep("h2"))

\* ------------------------------------------------ _format_data_array, SpecTable
\* A value of a row is Nil (None) or Some(t), t the text str() gives for it.
Str(val) == IF IsNil(val) THEN <<>> ELSE Val(val)

\* c * n
Rep(c, n) == [i \in 1..n |-> c]

\* t[:n]
Take(t, n) == SubSeq(t, 1, IF n < Len(t) THEN n ELSE Len(t))

\* str.ljust, str.rjust, str.center (CPython pads the left with
\* marg // 2 + (marg & width & 1) characters).
LJust(t, width) == IF Len(t) >= width THEN t ELSE t \o Rep(" ", width - Len(t))

RJust(t, width) == IF Len(t) >= width THEN t ELSE Rep(" ", width - Len(t)) \o t

Center(t, width) ==
    IF Len(t) >= width THEN t
    ELSE LET marg == width - Len(t)
             left == (marg \div 2) + (IF marg % 2 = 1 /\ width % 2 = 1 THEN 1 ELSE 0)
         IN  Rep(" ", left) \o t \o Rep(" ", marg - left)

\* The characters of the values that float() reads as part of a number.
Digits == {"1", "2"}

\* _is_numeric: float(str(value)) succeeds; float() ignores surrounding
\* whitespace and rejects the empty string.
IsNumeric(val) ==
    /\ ~IsNil(val)
    /\ LET s == Strip(Val(val))
       IN  s # <<>> /\ \A i \in 1..Len(s) : s[i] \in Digits

\* Line 514: min(max_width + 2, 30)
Padding == 2
ColumnCap == 30

MaxOf(S) == CHOOSE n \in S : \A m \in S : m <= n

\* Lines 502-515, for column i
MaxWidth(names, rows, i) ==
    MaxOf({Len(names[i])} \cup {Len(Str(rows[r][i])) : r \in 1..Len(rows)})

ColWidth(names, rows, i) ==
    IF MaxWidth(names, rows, i) + Padding < ColumnCap
    THEN MaxWidth(names, rows, i) + Padding ELSE ColumnCap

ColType(rows, i) ==
    \A r \in 1..Len(rows) : IsNil(rows[r][i]) \/ IsNumeric(rows[r][i])

\* Line 538: val_str[:width].strip()
TruncatedInsidePadding(t, width) == Strip(Take(t, width - Padding))

Truncated(t, width) == Strip(Take(t, width))

\* Line 541: if is_numeric and self._is_numeric(val)
RightAlignedByCell(val, is_numeric) == IsNumeric(val)

RightAligned(val, is_numeric) == is_numeric /\ IsNumeric(val)

\* Lines 537-546
FormatCell(val, width, is_numeric) ==
    IF RightAligned(val, is_numeric)
    THEN RJust(Truncated(Str(val), width), width)
    ELSE LJust(Truncated(Str(val), width), width)

\* zip(...) stops at the shortest of its arguments.
ShortestOf(a, b) == IF Len(a) < Len(b) THEN Len(a) ELSE Len(b)

NoData == <<"No data">>

\* _format_data_array.  The lines of the table are kept as the lists that the
\* code joins with the column separator: header_parts, separator_parts, and the
\* row_parts of every row.  row[i] raises IndexError on a row with fewer values
\* than there are column names.
FormatDataArray(names, rows) ==
    IF rows = <<>> THEN [raised |-> FALSE, value |-> <<<<NoData>>>>]
    ELSE IF \E r \in 1..Len(rows) : Len(rows[r]) < Len(names)
    THEN [raised |-> TRUE, value |-> <<>>]
    ELSE LET n == Len(names)
             width == [i \in 1..n |-> ColWidth(names, rows, i)]
             type == [i \in 1..n |-> ColType(rows, i)]
             header_parts ==
                 [i \in 1..n |-> Center(Truncated(names[i], width[i]), width[i])]
             \* the box-drawing character of line 530 is written "-"
             separator_parts == [i \in 1..n |-> Rep("-", width[i])]
             row_parts(row) ==
                 [i \in 1..ShortestOf(row, names) |->
                     FormatCell(row[i], width[i], type[i])]
         IN  [raised |-> FALSE,
              value |-> <<header_parts, separator_parts>>
                        \o [r \in 1..Len(rows) |-> row_parts(rows[r])]]

\* Bounds of SpecTable.
\* The values: None, the empty string, runs of a digit and of a letter of the
\* lengths around the column cap, a number with a space before it, a text that
\* starts with a digit.
CellLens == {1} \cup ((ColumnCap - 3) .. MaxCellLen)

Cells ==
    {Nil, Some(<<>>), Some(<<" ", "1">>), Some(<<"1", "a">>)}
    \cup {Some(Rep("1", n)) : n \in CellLens}
    \cup {Some(Rep("a", n)) : n \in CellLens}

Id == <<"i", "d">>
Name == <<"n", "a", "m", "e">>
Alice == <<"A", "l", "i", "c", "e">>
Bob == <<"B", "o", "b">>

RowsOf(S) == UNION {[1..n -> S] : n \in 1..MaxTableRows}

\* One column under a short or a long header; the columns id and name; a row
\* that lacks a value.
TableInputs ==
    {[column_names |-> <<h>>, data_array |-> [r \in 1..Len(col) |-> <<col[r]>>]] :
        h \in {Id, Rep("n", MaxCellLen)}, col \in RowsOf(Cells)}
    \cup {[column_names |-> <<Id, Name>>, data_array |-> rows] :
            rows \in RowsOf({<<Some(<<"1">>), Some(Alice)>>,
                             <<Some(<<"2">>), Some(Bob)>>,
                             <<Nil, Some(Bob)>>,
                             <<Some(<<"a">>), Nil>>})}
    \cup {[column_names |-> <<Id, Name>>, data_array |-> <<<<Some(<<"1">>)>>>>],
          [column_names |-> <<Id>>, data_array |-> <<>>]}

InitTable ==
    /\ pc = "idle"
    /\ calls = <<>>
    /\ WaitIdle
    /\ AskIdle
    /\ BotIdle
    /\ bot = "SlackGenieBot"
    /\ \E inp \in TableInputs :
         /\ column_names = inp.column_names
         /\ data_array = inp.data_array
    /\ row_count = Nil
    /\ table_text = Nil
    /\ result_message = Nil
    /\ event_text = <<>>
    /\ StartIdle
    /\ HeapIdle
    /\ ServingIdle

\* One call of _format_data_array.
FormatTable ==
    /\ hpc = "idle"
    /\ table_text' = Some(FormatDataArray(column_names, data_array))
    /\ hpc' = "done"
    /\ UNCHANGED <<pc, waitVars, calls, askVars, thread_ts, conversation_map,
                   message_feedback_map, sent, events, carried, bot,
                   conversation_history, msg_ts, rating, feedback_calls, text,
                   action_id, bot_id, clicks, handlers, last_store, column_names,
                   data_array, row_count, result_message, event_text, startVars, heapVars, servingVars>>

NextTable == FormatTable

SpecTable == InitTable /\ [][NextTable]_vars

\* --------------------------------------------- _send_query_results, SpecResults
\* Line 274
max_rows == 10

\* data.get("row_count", len(data_array))
RowCountOfArray(field, rows) == Len(rows)

RowCount(field, rows) == IF IsNil(field) THEN Len(rows) ELSE Val(field)

\* The note of line 281, the numbers as the f-string formats them.
ShowingNote(shown, total) ==
    <<"\n_Showing ", ToString(shown), " of ", ToString(total), " rows_">>

\* Lines 278-281: the heading and the code fence around table_text are fixed;
\* the message is kept as the table and what follows the closing fence.
ResultMessage(table, field, rows) ==
    [table |-> table,
     tail |-> IF RowCount(field, rows) > max_rows
              THEN ShowingNote(max_rows, RowCount(field, rows)) ELSE <<>>]

\* The k-th row of the results holds the k-digit number 1...1.
DataRow(k) == <<Some(Rep("1", k))>>

InitResults ==
    /\ pc = "idle"
    /\ calls = <<>>
    /\ WaitIdle
    /\ AskIdle
    /\ BotIdle
    /\ bot = "SlackGenieBot"
    /\ column_names \in {<<Id>>, <<Id, Name>>}
    /\ \E n \in 0..MaxDataRows : data_array = [k \in 1..n |-> DataRow(k)]
    /\ row_count \in {Nil} \cup {Some(m) : m \in 0..(MaxDataRows + 1)}
    /\ table_text = Nil
    /\ result_message = Nil
    /\ event_text = <<>>
    /\ StartIdle
    /\ HeapIdle
    /\ ServingIdle

\* One call of _send_query_results: nothing is sent for an empty data_array;
\* a fault of _format_data_array and a failed chat_postMessage end in the
\* except branch, nothing posted.
SendQueryResults ==
    /\ hpc = "idle"
    /\ hpc' = "done"
    /\ IF data_array = <<>>
       THEN UNCHANGED <<table_text, result_message, sent>>
       ELSE LET table == FormatDataArray(column_names, Take(data_array, max_rows))
            IN  /\ table_text' = Some(table)
                /\ IF table.raised
                   THEN UNCHANGED <<result_message, sent>>
                   ELSE \E ok \in BOOLEAN :
                          /\ result_message' =
                                Some(ResultMessage(table.value, row_count, data_array))
                          /\ sent' = <<Msg("query_results", <<>>, ok)>>
    /\ UNCHANGED <<pc, waitVars, calls, askVars, thread_ts, conversation_map,
                   message_feedback_map, events, carried, bot,
                   conversation_history, msg_ts, rating, feedback_calls, text,
                   action_id, bot_id, clicks, handlers, last_store, column_names,
                   data_array, row_count, event_text, startVars, heapVars, servingVars>>

NextResults == SendQueryResults

SpecResults == InitResults /\ [][NextResults]_vars

\* --------------------------------------------- _clean_message_text, SpecClean
\* The characters of the texts: those of a mention token, a lower-case letter
\* that the pattern rejects, whitespace, a letter of the question.
TextChars == {"<", "@", "U", "u", ">", " ", "q"}

Texts == UNION {[1..n -> TextChars] : n \in 0..MaxTextLen}

InitClean ==
    /\ pc = "idle"
    /\ calls = <<>>
    /\ WaitIdle
    /\ AskIdle
    /\ hpc = "idle"
    /\ thread_ts = None
    /\ conversation_map = [k \in Threads |-> None]
    /\ message_feedback_map = [ts \in {Ts(n) : n \in 1..MaxEvents} |-> Nil]
    /\ sent = <<>>
    /\ events = 0
    /\ carried = [k \in Threads |-> None]
    /\ bot \in Bots
    /\ conversation_history = [k \in Threads |-> <<>>]
    /\ msg_ts = None
    /\ rating = None
    /\ feedback_calls = <<>>
    /\ event_text \in Texts
    /\ text = event_text
    /\ action_id = None
    /\ bot_id = FALSE
    /\ clicks = [ts \in {Ts(n) : n \in 1..MaxEvents} |-> [n |-> 0, calls |-> <<>>]]
    /\ handlers = [h \in Handlers |-> IdleHandler]
    /\ last_store = None
    /\ column_names = <<>>
    /\ data_array = <<>>
    /\ row_count = Nil
    /\ table_text = Nil
    /\ result_message = Nil
    /\ StartIdle
    /\ HeapIdle
    /\ ServingIdle

\* _clean_message_text called on the event's text, and once more on what it
\* returned.
CleanText ==
    /\ hpc \in {"idle", "cleaned"}
    /\ text' = CleanMessageText(text)
    /\ hpc' = IF hpc = "idle" THEN "cleaned" ELSE "recleaned"
    /\ UNCHANGED <<pc, waitVars, calls, askVars, thread_ts, conversation_map,
                   message_feedback_map, sent, events, carried, bot,
                   conversation_history, msg_ts, rating, feedback_calls,
                   action_id, bot_id, clicks, handlers, last_store, helperVars>>

NextClean == CleanText

SpecClean == InitClean /\ [][NextClean]_vars

\* ------------------------------------------ Config.validate and main, SpecStartup
\* config.py line 31-36
required_vars ==
    <<"SLACK_BOT_TOKEN", "SLACK_SIGNING_SECRET", "SLACK_APP_TOKEN",
      "DATABRICKS_GENIE_SPACE_ID">>

\* What os.getenv gives for a variable: None when it is not set, the empty
\* string, a value.
EnvValues == {None, "", "v"}

\* not getattr(cls, var)
UnsetWhenNone(value) == value = None

Unset(value) == ~Truthy(value)

\* [var for var in required_vars if not getattr(cls, var)]
RECURSIVE MissingFrom(_, _)
MissingFrom(cfg, names) ==
    IF names = <<>> THEN <<>>
    ELSE (IF Unset(cfg[Head(names)]) THEN <<Head(names)>> ELSE <<>>)
         \o MissingFrom(cfg, Tail(names))

\* ', '.join(names)
RECURSIVE Join(_)
Join(names) ==
    IF names = <<>> THEN <<>>
    ELSE IF Len(names) = 1 THEN names
    ELSE <<Head(names), ", ">> \o Join(Tail(names))

MissingRequired == "Missing required environment variables: "

\* Config.validate: the message of the ValueError it raises, Nil when it
\* returns True.
Validate(cfg) ==
    IF MissingFrom(cfg, required_vars) # <<>>
    THEN Some(<<MissingRequired>> \o Join(MissingFrom(cfg, required_vars)))
    ELSE Nil

InitStartup ==
    /\ pc = "idle"
    /\ calls = <<>>
    /\ WaitIdle
    /\ AskIdle
    /\ BotIdle
    /\ bot = "SlackGenieBot"
    /\ column_names = <<>>
    /\ data_array = <<>>
    /\ row_count = Nil
    /\ table_text = Nil
    /\ result_message = Nil
    /\ event_text = <<>>
    /\ HeapIdle
    /\ ServingIdle
    /\ config \in [{required_vars[i] : i \in 1..Len(required_vars)} -> EnvValues]
    /\ mpc = "start"
    /\ config_error = Nil
    /\ exit_code = Nil
    /\ steps = <<>>

mainFrame == <<pc, waitVars, calls, askVars, hpc, thread_ts, conversation_map,
               message_feedback_map, sent, events, carried, bot,
               conversation_history, msg_ts, rating, feedback_calls, text,
               action_id, bot_id, clicks, handlers, last_store, column_names,
               data_array, row_count, table_text, result_message, event_text,
               config, heapVars, servingVars>>

\* app.py line 29: setup_logging(); a LOG_LEVEL that logging does not know or a
\* log file that cannot be opened ends in the last except branch.
MainLogging ==
    /\ mpc = "start"
    /\ \E ok \in BOOLEAN :
         IF ok THEN /\ mpc' = "logging"
                    /\ steps' = Append(steps, "setup_logging")
                    /\ UNCHANGED exit_code
         ELSE /\ mpc' = "exited"
              /\ exit_code' = Some(1)
              /\ UNCHANGED steps
    /\ UNCHANGED <<mainFrame, config_error>>

\* app.py line 33, and the except ValueError branch of lines 56-58
MainValidate ==
    /\ mpc = "logging"
    /\ config_error' = Validate(config)
    /\ IF IsNil(config_error')
       THEN /\ mpc' = "validated"
            /\ steps' = Append(steps, "validate")
            /\ UNCHANGED exit_code
       ELSE /\ mpc' = "exited"
            /\ exit_code' = Some(1)
            /\ UNCHANGED steps
    /\ UNCHANGED mainFrame

\* app.py lines 39-41: the SDK may refuse the credentials.
MainClient ==
    /\ mpc = "validated"
    /\ \E ok \in BOOLEAN :
         IF ok THEN /\ mpc' = "client"
                    /\ steps' = Append(steps, "DatabricksGenieClient")
                    /\ UNCHANGED exit_code
         ELSE /\ mpc' = "exited"
              /\ exit_code' = Some(1)
              /\ UNCHANGED steps
    /\ UNCHANGED <<mainFrame, config_error>>

\* app.py lines 46-54
MainBot ==
    /\ mpc = "client"
    /\ mpc' = "running"
    /\ steps' = steps \o <<"SlackGenieBot", "start">>
    /\ UNCHANGED <<mainFrame, config_error, exit_code>>

NextStartup == MainLogging \/ MainValidate \/ MainClient \/ MainBot

SpecStartup == InitStartup /\ [][NextStartup]_vars

\* -------------------------- SlackModelServingBot, two worker threads, SpecConcServing
\* The lists of turns are objects: .get(thread_ts, []) gives the stored list
\* itself when the key is present, and a new empty list otherwise; append
\* changes the object, the assignment of line 117 stores a reference to it.
\* heap holds the objects ("o0", the list stored before the two events if any,
\* and one list per worker thread for the default of its .get), history_ref
\* the object stored under each thread key, conversation_history its content.
Objects == {"o0"} \cup Handlers

\* The question of the event that worker thread h handles.
QuestionOf(h) == <<"q", h>>

HistoryOf(refs, objs) ==
    [k \in Threads |-> IF refs[k] = None THEN <<>> ELSE objs[refs[k]]]

srvFrame == <<pc, waitVars, calls, askVars, hpc, thread_ts, conversation_map,
              message_feedback_map, sent, events, carried, bot, msg_ts, rating,
              feedback_calls, text, action_id, bot_id, clicks, last_store,
              column_names, data_array, row_count, table_text, result_message,
              event_text, startVars, servingVars>>

\* Lines 68-89: a message event with a question is accepted, the indicator sent.
SrvReceive(h) ==
    /\ handlers[h].hpc = "idle"
    /\ \E k \in Threads :
         handlers' = [handlers EXCEPT ![h] =
            [@ EXCEPT !.hpc = "read", !.kind = "message", !.thread_ts = k]]
    /\ UNCHANGED <<srvFrame, conversation_history, heap, history_ref>>

\* Line 92: conversation_history = self.conversation_history.get(thread_ts, [])
SrvRead(h) ==
    /\ handlers[h].hpc = "read"
    /\ LET stored == history_ref[handlers[h].thread_ts]
       IN  /\ handlers' = [handlers EXCEPT ![h] =
                 [@ EXCEPT !.hpc = "ask",
                           !.conversation_id = IF stored = None THEN h ELSE stored]]
           /\ heap' = IF stored = None THEN [heap EXCEPT ![h] = <<>>] ELSE heap
    /\ UNCHANGED <<srvFrame, conversation_history, history_ref>>

\* Lines 96-100
SrvAsk(h) ==
    /\ handlers[h].hpc = "ask"
    /\ \E message \in {Nil, Some([content |-> <<"r">>, total_tokens |-> Nil])} :
         handlers' = [handlers EXCEPT ![h] =
            [@ EXCEPT !.hpc = IF IsNil(message) THEN "respond" ELSE "append_user",
                      !.result = Some(ServingAskQuestion(message))]]
    /\ UNCHANGED <<srvFrame, conversation_history, heap, history_ref>>

\* Lines 105-108
SrvAppendUser(h) ==
    /\ handlers[h].hpc = "append_user"
    /\ heap' = [heap EXCEPT ![handlers[h].conversation_id] =
                   Append(@, Turn("user", QuestionOf(h)))]
    /\ conversation_history' = HistoryOf(history_ref, heap')
    /\ handlers' = [handlers EXCEPT ![h] = [@ EXCEPT !.hpc = "append_assistant"]]
    /\ UNCHANGED <<srvFrame, history_ref>>

\* Lines 111-114
SrvAppendAssistant(h) ==
    /\ handlers[h].hpc = "append_assistant"
    /\ heap' = [heap EXCEPT ![handlers[h].conversation_id] =
                   Append(@, Turn("assistant",
                                  Val(Val(handlers[h].result).response)))]
    /\ conversation_history' = HistoryOf(history_ref, heap')
    /\ handlers' = [handlers EXCEPT ![h] = [@ EXCEPT !.hpc = "store"]]
    /\ UNCHANGED <<srvFrame, history_ref>>

\* Line 117
SrvStore(h) ==
    /\ handlers[h].hpc = "store"
    /\ history_ref' = [history_ref EXCEPT ![handlers[h].thread_ts] =
                          handlers[h].conversation_id]
    /\ conversation_history' = HistoryOf(history_ref', heap)
    /\ handlers' = [handlers EXCEPT ![h] = [@ EXCEPT !.hpc = "respond"]]
    /\ UNCHANGED <<srvFrame, heap>>

\* Lines 120-128: the answer and the usage line, which touch no shared state.
SrvRespond(h) ==
    /\ handlers[h].hpc = "respond"
    /\ handlers' = [handlers EXCEPT ![h] = [@ EXCEPT !.hpc = "done"]]
    /\ UNCHANGED <<srvFrame, conversation_history, heap, history_ref>>

SrvStep(h) ==
    \/ SrvReceive(h)
    \/ SrvRead(h)
    \/ SrvAsk(h)
    \/ SrvAppendUser(h)
    \/ SrvAppendAssistant(h)
    \/ SrvStore(h)
    \/ SrvRespond(h)

\* The bot has handled no event, or one successful exchange on thread t1.
PriorExchange == <<Turn("user", <<"q", "h0">>), Turn("assistant", <<"r">>)>>

InitConcServing ==
    /\ pc = "idle"
    /\ calls = <<>>
    /\ WaitIdle
    /\ AskIdle
    /\ hpc = "idle"
    /\ thread_ts = None
    /\ conversation_map = [k \in Threads |-> None]
    /\ message_feedback_map = [ts \in {Ts(n) : n \in 1..MaxEvents} |-> Nil]
    /\ sent = <<>>
    /\ events = 0
    /\ carried = [k \in Threads |-> None]
    /\ bot = "SlackModelServingBot"
    /\ msg_ts = None
    /\ rating = None
    /\ feedback_calls = <<>>
    /\ text = <<>>
    /\ action_id = None
    /\ bot_id = FALSE
    /\ clicks = [ts \in {Ts(n) : n \in 1..MaxEvents} |-> [n |-> 0, calls |-> <<>>]]
    /\ handlers = [h \in Handlers |-> IdleHandler]
    /\ last_store = None
    /\ column_names = <<>>
    /\ data_array = <<>>
    /\ row_count = Nil
    /\ table_text = Nil
    /\ result_message = Nil
    /\ event_text = <<>>
    /\ StartIdle
    /\ ServingIdle
    /\ \/ /\ heap = [o \in Objects |-> <<>>]
          /\ history_ref = [k \in Threads |-> None]
       \/ /\ heap = [o \in Objects |-> IF o = "o0" THEN PriorExchange ELSE <<>>]
          /\ history_ref = [k \in Threads |-> IF k = "t1" THEN "o0" ELSE None]
    /\ conversation_history = HistoryOf(history_ref, heap)

NextConcServing == \E h \in Handlers : SrvStep(h)

SpecConcServing == InitConcServing /\ [][NextConcServing]_vars

\* ------------------------------ one pass of SlackGenieBot, step by step, SpecPass
\* _handle_message with ask_question and wait_for_response not taken as whole
\* functions: the handler's steps, and between HandleLookup and HandleStore the
\* steps of the backend client, the poll loop with its clock included.
PassPayloads ==
    {BarePayload("EXECUTING_QUERY"),
     Payload("COMPLETED", <<QueryAttachment(<<"b">>, "s1"), ChartAttachment>>,
             Some(<<"r">>), Nil, <<"q">>),
     Payload("FAILED", <<>>, Nil, Nil, <<>>)}

PassSendResponses ==
    {SendResponse("exc", None, None, None, Nil),
     SendResponse("dict", "m1", None, "c1", Nil)}

\* The one message event of the behaviour.
PassEvent ==
    /\ hpc = "idle"
    /\ HandleEvent

\* Line 116, the call: ask_question begins with the locals of a new call.
PassCall ==
    /\ hpc = "ask"
    /\ pc = "idle"
    /\ hpc' = "asking"
    /\ pc' = "ask"
    /\ UNCHANGED <<waitVars, calls, askVars, thread_ts, conversation_map,
                   message_feedback_map, sent, events, carried, bot,
                   conversation_history, msg_ts, rating, feedback_calls, text,
                   action_id, bot_id, clicks, handlers, last_store, helperVars>>

\* Line 116, the return: result is bound (an exception raised in ask_question
\* would reach the except block), the locals of the two calls are gone.
PassReturn ==
    /\ hpc = "asking"
    /\ pc \in {"done", "raised"}
    /\ hpc' = IF pc = "done" THEN "store" ELSE "fault"
    /\ pc' = "idle"
    /\ calls' = Append(calls, [op |-> "ask_question", raised |-> pc = "raised"])
    /\ max_wait_time' = DefaultMaxWaitTime
    /\ poll_interval' = DefaultPollInterval
    /\ elapsed' = 0
    /\ fetched' = <<>>
    /\ sleeps' = 0
    /\ response' = Nil
    /\ message_result' = Nil
    /\ actual_conversation_id' = None
    /\ message_id' = None
    /\ response_text' = <<>>
    /\ statement_id' = None
    /\ UNCHANGED <<conversation_id, result, thread_ts, conversation_map,
                   message_feedback_map, sent, events, carried, bot,
                   conversation_history, msg_ts, rating, feedback_calls, text,
                   action_id, bot_id, clicks, handlers, last_store, helperVars>>

InitPass ==
    /\ pc = "idle"
    /\ calls = <<>>
    /\ WaitIdle
    /\ AskIdle
    /\ BotIdle
    /\ HelpersIdle
    /\ bot = "SlackGenieBot"

NextPass ==
    \/ PassEvent
    \/ HandleIndicator
    \/ HandleLookup
    \/ PassCall
    \/ AskSend(PassSendResponses)
    \/ WaitStart
    \/ WaitLoop
    \/ WaitFetch(StatusResponsesOf(PassPayloads))
    \/ WaitSleep
    \/ AskAfterWait
    \/ AskStatement
    \/ PassReturn
    \/ HandleStore
    \/ HandleAnswer
    \/ HandleTable
    \/ HandleAttachments
    \/ HandleSuggested
    \/ HandleFeedbackPrompt
    \/ HandleFault

SpecPass == InitPass /\ [][NextPass]_vars

\* Every step of the pass is taken in the end: the worker thread runs, the
\* requests return, the sleeps end.
FairSpecPass == SpecPass /\ WF_vars(NextPass)

\* ------------------------------------------------- claims on the handler
\* C1: on every pass ask_question is called with the conversation id the last
\* result on that thread key carried (None while no result carried one), and after
\* a pass whose result carries a non-empty conversation id, success or failure,
\* conversation_map holds that id under the thread key.
C1_ThreadContinuity ==
    /\ bot = "SlackGenieBot" /\ hpc = "store" => conversation_id = carried[thread_ts]
    /\ bot = "SlackGenieBot" /\ ~IsNil(result)
         /\ hpc \notin {"idle", "indicator", "lookup", "ask", "store"}
         /\ Val(result).conversation_id \notin {None, ""}
         => conversation_map[thread_ts] = Val(result).conversation_id

\* A later pass on a thread: asked with the stored "c1", the result is a failure
\* that carries "c2", and "c2" is stored.
C1_Witness ==
    /\ hpc = "done"
    /\ conversation_id = "c1"
    /\ ~IsNil(result)
    /\ ~Val(result).success
    /\ Val(result).conversation_id = "c2"
    /\ conversation_map[thread_ts] = "c2"

\* ------------------------------------------------- claims on the poll loop
\* The status of the i-th fetch, None when the fetch returned nothing.
FetchedStatus(i) == IF IsNil(fetched[i]) THEN None ELSE Val(fetched[i]).status

TerminalFetches == {i \in 1..Len(fetched) : FetchedStatus(i) \in TerminalStatuses}

FirstTerminal == CHOOSE i \in TerminalFetches : \A j \in TerminalFetches : i <= j

LastAbsent == Len(fetched) > 0 /\ IsNil(fetched[Len(fetched)])

LastTerminal == Len(fetched) > 0 /\ FetchedStatus(Len(fetched)) \in TerminalStatuses

CallsOf(op) == {i \in 1..Len(calls) : calls[i].op = op}

StatusCalls == Cardinality(CallsOf("status"))

\* ceil(m / p) for p > 0
Ceil(m, p) == (m + p - 1) \div p

\* C2: wait_for_response returns a payload only if the payload's status is
\* COMPLETED, FAILED or CANCELLED; a return after only non-terminal statuses is None.
C2_PayloadOnlyIfTerminal ==
    pc = "returned" =>
        /\ ~IsNil(response) => Val(response).status \in TerminalStatuses
        /\ TerminalFetches = {} => IsNil(response)

\* A timeout after two fetches that were both non-terminal.
C2_Witness ==
    /\ pc = "returned"
    /\ Len(fetched) >= 2
    /\ \A i \in 1..Len(fetched) : ~IsNil(fetched[i])
    /\ TerminalFetches = {}
    /\ IsNil(response)

\* C3: when the first terminal status comes at fetch n (time not yet out), the call
\* returns that payload after exactly n fetches and n - 1 sleeps, whatever
\* max_wait_time is.
C3_ReturnsAtFirstTerminal ==
    TerminalFetches # {} =>
        /\ pc = "returned"
        /\ response = fetched[FirstTerminal]
        /\ Len(fetched) = FirstTerminal
        /\ StatusCalls = FirstTerminal
        /\ sleeps = FirstTerminal - 1

\* [RUNNING, RUNNING, COMPLETED]: three fetches, two sleeps.
C3_Witness ==
    /\ pc = "returned"
    /\ Len(fetched) = 3
    /\ FetchedStatus(1) = "EXECUTING_QUERY"
    /\ FetchedStatus(2) = "EXECUTING_QUERY"
    /\ FetchedStatus(3) = "COMPLETED"
    /\ sleeps = 2
    /\ response = fetched[3]

\* C4 as stated: polling stops only on a terminal status or when the elapsed time
\* has reached max_wait_time.
C4_Original ==
    pc = "returned" => LastTerminal \/ elapsed >= max_wait_time

\* C4 as amended: polling stops exactly when a fetched status is terminal, a
\* status fetch returns nothing (failed request or empty payload), or the elapsed
\* time has reached max_wait_time; otherwise it sleeps at least poll_interval and
\* evaluates the loop condition again.
C4_StopsOnlyWhen ==
    [][ /\ pc = "loop" =>
              pc' = IF elapsed < max_wait_time THEN "fetch" ELSE "returned"
        /\ pc = "fetch" =>
              pc' = IF LastAbsent' \/ LastTerminal' THEN "returned" ELSE "sleep"
        /\ pc = "sleep" =>
              pc' = "loop" /\ elapsed' >= elapsed + poll_interval
      ]_vars

\* A failed status fetch ended the polling before the time was out.
C4_Witness ==
    /\ pc = "returned"
    /\ LastAbsent
    /\ Len(fetched) >= 2
    /\ elapsed < max_wait_time

\* C5: with poll_interval > 0 the call ends, after at most
\* ceil(max_wait_time / poll_interval) fetches; when no status was terminal it
\* returns None.
C5_Terminates ==
    /\ [](Len(fetched) <= Ceil(max_wait_time, poll_interval))
    /\ [](StatusCalls <= Ceil(max_wait_time, poll_interval))
    /\ [](pc = "returned" /\ TerminalFetches = {} => IsNil(response))
    /\ <>(pc = "returned")

\* The timeout after exactly ceil(max_wait_time / poll_interval) non-terminal fetches.
C5_Witness ==
    /\ pc = "returned"
    /\ Len(fetched) = Ceil(max_wait_time, poll_interval)
    /\ Len(fetched) >= 2
    /\ \A i \in 1..Len(fetched) : ~IsNil(fetched[i])
    /\ TerminalFetches = {}
    /\ IsNil(response)
    /\ elapsed >= max_wait_time

\* ------------------------------------------------- claims on ask_question
\* C6: ask_question short-circuits.  When send_message returns nothing, the submit
\* is the only request and the result is a failure with the caller's conversation
\* id; when wait_for_response returns nothing, no statement request is issued and
\* the result is a failure.  The requests of a run are one submit, then status
\* fetches, then at most one statement fetch.
C6_ShortCircuit ==
    /\ pc = "done" /\ IsNil(message_result) =>
          /\ Len(calls) = 1 /\ calls[1].op = "send"
          /\ ~Val(result).success
          /\ Val(result).conversation_id = conversation_id
    /\ pc = "done" /\ ~IsNil(message_result) /\ IsNil(response) =>
          /\ CallsOf("statement") = {}
          /\ ~Val(result).success
    /\ CallsOf("send") = (IF calls = <<>> THEN {} ELSE {1})
    /\ \A i \in CallsOf("statement") : i = Len(calls) /\ i > 2
    /\ \A i \in 1..Len(calls) : calls[i].op \in {"send", "status", "statement"}

\* The poll ended with nothing after two status fetches, on a continued conversation.
C6_Witness ==
    /\ pc = "done"
    /\ conversation_id = "c1"
    /\ ~IsNil(message_result)
    /\ IsNil(response)
    /\ StatusCalls >= 2
    /\ ~Val(result).success

\* C9: a FAILED or CANCELLED payload gives success = false with the error
\* "Query failed: " followed by the payload's error message, "Unknown error" when
\* it has none.
C9_FailedPayload ==
    pc = "done" /\ ~IsNil(response) /\ Val(response).status \in {"FAILED", "CANCELLED"} =>
        /\ ~Val(result).success
        /\ LET e == Val(response).error
           IN  Val(result).error =
                 Some(<<"Query failed: ">> \o
                      (IF e # Nil /\ Val(e).message # Nil
                       THEN Val(Val(e).message) ELSE <<"Unknown error">>))

C9_Witness ==
    /\ pc = "done"
    /\ ~IsNil(response)
    /\ Val(response).status = "CANCELLED"
    /\ Val(response).error = Some([message |-> Some(<<"e">>)])
    /\ Val(result).error = Some(<<"Query failed: ", "e">>)

\* C10: whatever requests fail, ask_question returns a result with a success flag
\* and raises nothing.
C10_NeverRaises ==
    /\ pc # "raised"
    /\ pc = "done" => ~IsNil(result) /\ Val(result).success \in BOOLEAN
    /\ pc = "done" /\ (\E i \in 1..Len(calls) : calls[i].raised /\ calls[i].op # "statement")
          => ~Val(result).success

\* The statement request raised: the answer is still returned, without the rows.
C10_Witness ==
    /\ pc = "done"
    /\ \E i \in CallsOf("statement") : calls[i].raised
    /\ Val(result).success
    /\ IsNil(Val(result).result_data)

\* --------------------------------------------- claims on the extraction
Attachments == Val(response).attachments

QueryWithStatement ==
    {i \in 1..Len(Attachments) :
        Attachments[i].kind = "query" /\ Attachments[i].statement_id \notin {None, ""}}

\* C7: for a COMPLETED payload the statement request is issued whenever some query
\* attachment carries a statement id, and never otherwise.
C7_FetchIffStatementId ==
    pc = "done" /\ ~IsNil(response) /\ Val(response).status = "COMPLETED" =>
        (CallsOf("statement") # {} <=> QueryWithStatement # {})

\* The text the claim describes: every text and query attachment's text, each
\* followed by a blank line, from attachment i on.
RECURSIVE ConcatEvery(_)
ConcatEvery(i) ==
    IF i > Len(Attachments) THEN <<>>
    ELSE (IF Attachments[i].kind \in {"text", "query"}
          THEN Attachments[i].text \o <<"\n", "\n">> ELSE <<>>) \o ConcatEvery(i + 1)

\* The same, of the attachments whose text is not empty.
RECURSIVE ConcatNonEmpty(_)
ConcatNonEmpty(i) ==
    IF i > Len(Attachments) THEN <<>>
    ELSE (IF Attachments[i].kind \in {"text", "query"} /\ Len(Attachments[i].text) > 0
          THEN Attachments[i].text \o <<"\n", "\n">> ELSE <<>>) \o ConcatNonEmpty(i + 1)

ContentOrPlaceholder ==
    IF Val(response).content = Nil THEN <<"No response generated">>
    ELSE Val(Val(response).content)

\* C8 as stated: the response text is the trimmed concatenation of every text
\* attachment's content and every query attachment's description, each followed by
\* a blank line; when that is empty, the payload's content, or the placeholder.
C8_Original ==
    pc = "done" /\ Val(result).success =>
        Val(result).response =
            Some(IF Strip(ConcatEvery(1)) # <<>> THEN Strip(ConcatEvery(1))
                 ELSE ContentOrPlaceholder)

\* C8 as amended: the concatenation takes the non-empty contents and descriptions
\* only, and the fallback is the payload's content trimmed.
C8_ResponseText ==
    pc = "done" /\ Val(result).success =>
        Val(result).response =
            Some(IF Strip(ConcatNonEmpty(1)) # <<>> THEN Strip(ConcatNonEmpty(1))
                 ELSE Strip(ContentOrPlaceholder))

\* A text, an empty description and a description: "a", blank line, "b".
C8_Witness ==
    /\ pc = "done"
    /\ Len(Attachments) = 3
    /\ Attachments[1] = [kind |-> "text", text |-> <<"a">>, statement_id |-> None]
    /\ Attachments[2].kind = "query" /\ Attachments[2].text = <<>>
    /\ Attachments[3].kind = "query" /\ Attachments[3].text = <<"b">>
    /\ Val(result).response = Some(<<"a", "\n", "\n", "b">>)

\* ----------------------------------------- claims on send_message_feedback
\* C11: send_message_feedback returns false when the feedback request fails
\* (api_client.do raises) and true otherwise, never raises, and the rating it
\* transmits is one of POSITIVE, NEGATIVE, NONE.
C11_FeedbackOutcome ==
    \A i \in 1..Len(feedback_calls) :
        /\ feedback_calls[i].returned = ~calls[i].raised
        /\ ~feedback_calls[i].raised
        /\ feedback_calls[i].rating \in {Upper(Positive), Upper(Negative), Upper(NoRating)}

\* A call given "Positive" whose request raised and returned false, then a call
\* given "none" whose request was answered with an empty dict and returned true.
C11_Witness ==
    /\ Len(feedback_calls) = 2
    /\ feedback_calls[1].given = <<"P", "o", "s", "i", "t", "i", "v", "e">>
    /\ calls[1].raised /\ ~feedback_calls[1].returned
    /\ feedback_calls[2].given = NoRating
    /\ feedback_calls[2].answer = "empty" /\ feedback_calls[2].returned
    /\ feedback_calls[2].rating = <<"N", "O", "N", "E">>

\* ------------------------------------------------ claims on the two handlers
\* The handler run in progress or last finished is a message pass.
MessagePass == hpc \notin {"idle", "feedback_done"}

Kinds(k) == {i \in 1..Len(sent) : sent[i].kind = k}

\* C12: in both bots, handling a message event that carries a bot_id sends no
\* message, calls no backend operation and leaves conversation_map,
\* message_feedback_map and conversation_history as they were.
C12_BotEventRejected ==
    [][bot_id' =>
         /\ hpc' = "ignored"
         /\ sent' = <<>>
         /\ calls' = <<>> /\ feedback_calls' = <<>>
         /\ UNCHANGED <<conversation_map, message_feedback_map,
                        conversation_history>>]_vars

\* SlackGenieBot ignored an event on a thread that has a conversation, with a
\* feedback entry recorded.
C12_Witness ==
    /\ bot = "SlackGenieBot"
    /\ hpc = "ignored" /\ bot_id
    /\ conversation_map[thread_ts] = "c1"
    /\ \E ts \in DOMAIN message_feedback_map : ~IsNil(message_feedback_map[ts])

\* SlackModelServingBot ignored an event on a thread that has a history.
C12_WitnessServing ==
    /\ bot = "SlackModelServingBot"
    /\ hpc = "ignored" /\ bot_id
    /\ conversation_history[thread_ts] # <<>>

\* C13: in both bots, when the text of an accepted event is blank once the
\* mentions are removed, the pass sends exactly one prompt-for-input reply and
\* goes no further: no indicator, no backend call, no change to
\* conversation_map, message_feedback_map or conversation_history.  (The only
\* other message of such a pass is the apology that follows a failed send of
\* the prompt.)
C13_BlankTextPrompted ==
    [][MessagePass' /\ ~bot_id' /\ Strip(text') = <<>> =>
         /\ Cardinality(Kinds("prompt_for_input")') = 1
         /\ hpc' \in {"prompted", "fault", "done", "raised"}
         /\ \A i \in 1..Len(sent') : sent'[i].kind \in {"prompt_for_input", "apology"}
         /\ Kinds("apology")' # {} => ~sent'[1].ok
         /\ calls' = <<>> /\ feedback_calls' = <<>>
         /\ UNCHANGED <<conversation_map, message_feedback_map,
                        conversation_history>>]_vars

\* SlackGenieBot prompted for input on a thread that has a conversation, with a
\* feedback entry recorded.
C13_Witness ==
    /\ bot = "SlackGenieBot"
    /\ hpc = "prompted" /\ text = <<>>
    /\ sent = <<Msg("prompt_for_input", <<>>, TRUE)>>
    /\ conversation_map[thread_ts] = "c1"
    /\ \E ts \in DOMAIN message_feedback_map : ~IsNil(message_feedback_map[ts])

\* SlackModelServingBot prompted for input on a thread that has a history.
C13_WitnessServing ==
    /\ bot = "SlackModelServingBot"
    /\ hpc = "prompted" /\ text = <<>>
    /\ conversation_history[thread_ts] # <<>>

\* The handler run in progress or last finished has ended.
Ended == hpc \in {"ignored", "prompted", "done", "raised"}

\* C14: a pass whose indicator message could not be sent still asks the backend
\* and sends the primary answer.
C14_IndicatorBestEffort ==
    Ended /\ (\E i \in Kinds("indicator") : ~sent[i].ok)
        => CallsOf("ask_question") # {} /\ Kinds("answer") # {}

\* The kinds of the messages that follow the primary answer in sent.
RECURSIVE KindsFrom(_)
KindsFrom(i) == IF i > Len(sent) THEN <<>> ELSE <<sent[i].kind>> \o KindsFrom(i + 1)

AfterAnswer == KindsFrom((CHOOSE i \in Kinds("answer") : TRUE) + 1)

\* The sends that lines 128-163 owe to the result res, whatever their outcomes.
Charts(atts) == SelectSeq(atts, LAMBDA a : a.kind = "chart")

OwedAfterAnswer(res) ==
    (IF ~IsNil(res.result_data) /\ ~IsNil(Val(res.result_data).data)
     THEN <<"table">> ELSE <<>>)
    \o [i \in 1..Len(Charts(res.attachments)) |-> "chart"]
    \o (IF res.suggested_questions # <<>> THEN <<"suggested_questions">> ELSE <<>>)
    \o (IF res.success /\ res.conversation_id \notin {None, ""}
            /\ res.message_id \notin {None, ""}
        THEN <<"feedback_prompt">> ELSE <<>>)

\* C15: in a pass of SlackGenieBot whose primary answer was sent, every send
\* that follows it is attempted whatever the outcome of the sends before it: the
\* table, each attachment, the suggested questions and the feedback prompt.
C15_HelperFailuresSwallowed ==
    bot = "SlackGenieBot" /\ Ended /\ (\E i \in Kinds("answer") : sent[i].ok)
        => AfterAnswer = OwedAfterAnswer(Val(result))

\* The table, the first chart and the suggested questions failed; the second
\* chart and the feedback prompt were sent all the same.
C15_Witness ==
    /\ bot = "SlackGenieBot" /\ hpc = "done"
    /\ Len(sent) = 7
    /\ sent[2].kind = "answer" /\ sent[2].ok
    /\ sent[3].kind = "table" /\ ~sent[3].ok
    /\ sent[4].kind = "chart" /\ ~sent[4].ok
    /\ sent[5].kind = "chart" /\ sent[5].ok
    /\ sent[6].kind = "suggested_questions" /\ ~sent[6].ok
    /\ sent[7].kind = "feedback_prompt" /\ sent[7].ok

\* C16: a pass of SlackGenieBot whose primary answer could not be sent still
\* attempts the table, the attachments, the suggested questions and the
\* feedback prompt, and nothing else.
C16_AnswerFailureSwallowed ==
    bot = "SlackGenieBot" /\ Ended /\ (\E i \in Kinds("answer") : ~sent[i].ok)
        => AfterAnswer = OwedAfterAnswer(Val(result))

\* A send whose failure is not handled where it is made.
Faulted == \E i \in 1..Len(sent) :
              sent[i].kind \in {"prompt_for_input", "indicator", "answer"} /\ ~sent[i].ok

\* C17: in both bots _handle_message returns normally whatever sends fail, the
\* apology included, and a pass in which a fault occurred sends exactly one
\* apology.
C17_NeverPropagates ==
    /\ hpc # "raised"
    /\ Ended /\ Faulted => Cardinality(Kinds("apology")) = 1

\* ------------------------------------------- claims on message_feedback_map
\* The keys at which the map differs between this state and the next.
ChangedKeys ==
    {k \in DOMAIN message_feedback_map :
        message_feedback_map'[k] # message_feedback_map[k]}

\* C18: message_feedback_map gets an entry only in a pass whose result is a
\* success with a non-empty conversation id and message id, whose primary answer
\* was sent and whose feedback prompt was delivered with a ts; the key is that
\* ts and the value the (conversation id, message id) of the result.  Every pair
\* stored has two non-empty components.
C18_FeedbackEntry ==
    [][/\ ChangedKeys # {} =>
            LET res == Val(result)
                prompt == sent'[Len(sent')]
            IN  /\ res.success
                /\ res.conversation_id \notin {None, ""}
                /\ res.message_id \notin {None, ""}
                /\ \E i \in Kinds("answer") : sent[i].ok
                /\ prompt.kind = "feedback_prompt" /\ prompt.ok
                /\ prompt.ts \notin {None, ""}
                /\ ChangedKeys = {prompt.ts}
                /\ message_feedback_map'[prompt.ts] =
                      Some(<<res.conversation_id, res.message_id>>)
       /\ \A k \in DOMAIN message_feedback_map' :
            ~IsNil(message_feedback_map'[k]) =>
                /\ Val(message_feedback_map'[k])[1] \notin {None, ""}
                /\ Val(message_feedback_map'[k])[2] \notin {None, ""}]_vars

\* The second pass recorded its prompt under its own ts, next to the entry of
\* the first pass.
C18_Witness ==
    /\ hpc = "done" /\ events = 2
    /\ sent[Len(sent)].kind = "feedback_prompt" /\ sent[Len(sent)].ts = Ts(2)
    /\ message_feedback_map[Ts(2)] =
          Some(<<Val(result).conversation_id, Val(result).message_id>>)
    /\ ~IsNil(message_feedback_map[Ts(1)])

\* ------------------------------------------------ claims on _handle_feedback
\* The message clicked on has an entry in message_feedback_map.
HasEntry ==
    /\ msg_ts \in DOMAIN message_feedback_map
    /\ ~IsNil(message_feedback_map[msg_ts])

\* C19: a feedback interaction on a message that has no entry in
\* message_feedback_map makes no send_message_feedback call and exactly one
\* update, which replaces the message with the feedback-unavailable notice.
C19_UnknownTarget ==
    hpc = "feedback_done" /\ ~HasEntry =>
        /\ feedback_calls = <<>> /\ calls = <<>>
        /\ Len(sent) = 1
        /\ sent[1].kind = "chat_update" /\ sent[1].ts = msg_ts
        /\ sent[1].text = UnableToSubmit

\* A click on a message of the channel that is not a recorded prompt, while
\* another prompt is recorded.
C19_Witness ==
    /\ hpc = "feedback_done" /\ ~HasEntry
    /\ msg_ts = Ts(2)
    /\ ~IsNil(message_feedback_map[Ts(1)])
    /\ sent = <<Update(Ts(2), UnableToSubmit, TRUE)>>

\* C20: a feedback interaction on a message that has an entry calls
\* send_message_feedback once, with the stored conversation id and message id and
\* the rating of the control clicked on, and makes exactly one update: the
\* thank-you notice of that rating when the call returned true, the failure
\* notice that suggests a retry when it returned false.
C20_KnownTarget ==
    hpc = "feedback_done" /\ HasEntry =>
        /\ Len(feedback_calls) = 1
        /\ feedback_calls[1].conversation_id = Val(message_feedback_map[msg_ts])[1]
        /\ feedback_calls[1].message_id = Val(message_feedback_map[msg_ts])[2]
        /\ feedback_calls[1].given =
              (IF action_id = "feedback_positive" THEN Positive ELSE Negative)
        /\ Len(sent) = 1
        /\ sent[1].kind = "chat_update" /\ sent[1].ts = msg_ts
        /\ sent[1].text =
              (IF feedback_calls[1].returned
               THEN <<IF action_id = "feedback_positive" THEN ":+1:" ELSE ":-1:",
                      " _Thanks for your feedback!_">>
               ELSE FailedToSubmit)

\* The thumbs-down control of the first pass's prompt was clicked, the feedback
\* was accepted and the prompt replaced by the thumbs-down thank-you.
C20_Witness ==
    /\ hpc = "feedback_done" /\ HasEntry
    /\ msg_ts = Ts(1) /\ action_id = "feedback_negative"
    /\ feedback_calls[1].rating = Upper(Negative)
    /\ feedback_calls[1].returned
    /\ sent = <<Update(Ts(1), <<":-1:", " _Thanks for your feedback!_">>, TRUE)>>

\* C21: an entry of message_feedback_map, once recorded, stays with its value
\* through every message pass and feedback interaction, and the k clicks made on
\* a recorded prompt have produced k send_message_feedback calls, each with the
\* (conversation id, message id) of its entry.
C21_EntriesKept ==
    [][/\ \A k \in DOMAIN message_feedback_map :
            ~IsNil(message_feedback_map[k]) =>
                message_feedback_map'[k] = message_feedback_map[k]
       /\ \A k \in DOMAIN clicks' :
            clicks'[k].calls =
                [i \in 1..clicks'[k].n |-> Val(message_feedback_map'[k])]]_vars

\* Two clicks on the prompt of the first pass, two calls with its pair.
C21_Witness ==
    /\ hpc = "feedback_done" /\ msg_ts = Ts(1)
    /\ clicks[Ts(1)].n = 2
    /\ clicks[Ts(1)].calls = <<Val(message_feedback_map[Ts(1)]),
                               Val(message_feedback_map[Ts(1)])>>

\* --------------------------------------------- claims on conversation_history
\* C22: in SlackModelServingBot, events handled one after another, a successful
\* exchange appends to the thread's history the user turn with the cleaned
\* question and then the assistant turn with the response, a failed exchange and
\* every other step leave every history as it was; every history has even length
\* and alternates user, assistant.
C22_TwoTurnsPerExchange ==
    [][bot = "SlackModelServingBot" =>
         /\ \A k \in Threads :
              conversation_history'[k] =
                 IF hpc = "store" /\ hpc' = "answer" /\ k = thread_ts
                    /\ Val(result).success
                 THEN conversation_history[k]
                      \o <<[role |-> "user", content |-> text],
                           [role |-> "assistant", content |-> Val(Val(result).response)]>>
                 ELSE conversation_history[k]
         /\ \A k \in Threads :
              /\ Len(conversation_history'[k]) % 2 = 0
              /\ \A i \in 1..Len(conversation_history'[k]) :
                   conversation_history'[k][i].role =
                      IF i % 2 = 1 THEN "user" ELSE "assistant"]_vars

\* Three exchanges on one thread, the second one failed: four turns.
C22_Witness ==
    /\ bot = "SlackModelServingBot" /\ hpc = "done" /\ events = 3
    /\ Len(conversation_history[thread_ts]) = 4
    /\ Val(result).success
    /\ conversation_history[thread_ts][3] = [role |-> "user", content |-> <<"q">>]
    /\ conversation_history[thread_ts][4] = [role |-> "assistant", content |-> <<"r">>]

\* ------------------------------------------------ claims on concurrent handlers
\* A pass of h has written, or had nothing to write to, conversation_map.
Stored(h) == handlers[h].kind = "message" /\ handlers[h].hpc \in {"respond", "done"}

ReturnedId(h) == Val(handlers[h].result).conversation_id

\* C23: when two message events on one thread key are handled concurrently, no
\* write of conversation_map touches another key, and once both handlers have
\* stored, the entry of the key is the conversation id returned to the handler
\* that wrote last, whatever the interleaving; the map accesses raise nothing, so
\* both handlers reach their end.
C23_LastWriteWins ==
    [][/\ \A k \in Threads :
            conversation_map'[k] # conversation_map[k] =>
               \E h \in Handlers :
                  /\ handlers[h].hpc = "store" /\ handlers'[h].hpc = "respond"
                  /\ handlers[h].thread_ts = k
                  /\ conversation_map'[k] = ReturnedId(h)
       /\ (Stored("h1") /\ Stored("h2"))'
            /\ handlers'["h1"].thread_ts = handlers'["h2"].thread_ts
            /\ last_store' # None
            => /\ conversation_map'[handlers'["h1"].thread_ts] =
                     Val(handlers'[last_store'].result).conversation_id
               /\ conversation_map'[handlers'["h1"].thread_ts]
                     \in {ReturnedId("h1")', ReturnedId("h2")'}]_vars

\* Both handlers looked the key up before either stored, h1 stored "c1", then
\* h2 stored "c2".
C23_Witness ==
    /\ handlers["h1"].hpc = "done" /\ handlers["h2"].hpc = "done"
    /\ handlers["h1"].kind = "message" /\ handlers["h2"].kind = "message"
    /\ handlers["h1"].thread_ts = "t2" /\ handlers["h2"].thread_ts = "t2"
    /\ handlers["h1"].conversation_id = None /\ handlers["h2"].conversation_id = None
    /\ ReturnedId("h1") = "c1" /\ ReturnedId("h2") = "c2"
    /\ last_store = "h2"
    /\ conversation_map = [k \in Threads |-> IF k = "t2" THEN "c2" ELSE None]

\* C24: a handler suspended between two status fetches holds nothing that
\* another handler needs: whenever worker thread h2 has taken an event, it runs
\* to completion, even if h1 never wakes up from its sleep.
C24_SleeperBlocksNobody ==
    handlers["h2"].hpc # "idle" ~> handlers["h2"].hpc = "done"

\* h2 took a message event on another thread key while h1 was asleep in the
\* poll loop, and finished while h1 is still asleep.
C24_Witness ==
    /\ handlers["h1"].hpc = "sleep" /\ handlers["h1"].thread_ts = "t1"
    /\ handlers["h2"].hpc = "done" /\ handlers["h2"].kind = "message"
    /\ handlers["h2"].thread_ts = "t2" /\ handlers["h2"].overtook
    /\ conversation_map["t2"] = "c2"

\* The same for a feedback event handled while h1 is asleep.
C24_WitnessFeedback ==
    /\ handlers["h1"].hpc = "sleep"
    /\ handlers["h2"].hpc = "done" /\ handlers["h2"].kind = "feedback"
    /\ handlers["h2"].overtook /\ ~IsNil(handlers["h2"].result)

\* ------------------------------------------------------ claims on the table
\* The table has been rendered: its lines after the header and the separator
\* are the rows.
Rendered == ~IsNil(table_text) /\ ~Val(table_text).raised /\ data_array # <<>>

RowPart(r, i) == Val(table_text).value[r + 2][i]

AllSpaces(t) == \A j \in 1..Len(t) : t[j] = " "

\* The text sits at the right (left) edge of its part, or the part is blank.
RightJustified(t) == AllSpaces(t) \/ t[Len(t)] # " "

LeftJustified(t) == AllSpaces(t) \/ t[1] # " "

\* Every value of column i that is not None reads as a number: surrounding
\* whitespace aside, it is a non-empty run of digits.
NumericColumn(i) ==
    \A r \in 1..Len(data_array) :
       LET val == data_array[r][i]
       IN  IsNil(val)
           \/ (Strip(Val(val)) # <<>>
               /\ \A j \in 1..Len(Strip(Val(val))) : Strip(Val(val))[j] \in Digits)

\* C25: in the rendered table every cell of a column whose every non-null value
\* is numeric is right-justified, and every cell of any other column is
\* left-justified, within a part as wide as the column.
C25_Alignment ==
    Rendered =>
        \A r \in 1..Len(data_array) : \A i \in 1..Len(column_names) :
            /\ Len(RowPart(r, i)) = Len(Val(table_text).value[2][i])
            /\ IF NumericColumn(i) THEN RightJustified(RowPart(r, i))
                                   ELSE LeftJustified(RowPart(r, i))

\* Columns [id, name], rows [[1, Alice], [2, Bob]].
C25_Witness ==
    /\ column_names = <<Id, Name>>
    /\ data_array = <<<<Some(<<"1">>), Some(Alice)>>, <<Some(<<"2">>), Some(Bob)>>>>
    /\ Rendered
    /\ Val(table_text).value[3] = <<Rep(" ", 3) \o <<"1">>, Alice \o Rep(" ", 2)>>
    /\ Val(table_text).value[4] = <<Rep(" ", 3) \o <<"2">>, Bob \o Rep(" ", 4)>>

\* A column with a number and a text: the number is left-justified too.
C25_WitnessMixed ==
    /\ column_names = <<Id>>
    /\ data_array = <<<<Some(<<"1">>)>>, <<Some(<<"1", "a">>)>>>>
    /\ Rendered
    /\ RowPart(1, 1) = <<"1", " ", " ", " ">>

\* The characters of its value that a part shows, and the blanks around them.
Shown(t) == Len(Strip(t))

PaddingOf(t) == Len(t) - Shown(t)

Posted == hpc = "done" /\ ~IsNil(result_message)

\* The rows of the table in the message.
DisplayedRows == Len(Val(result_message).table) - 2

\* C27 as stated: at most the first 10 rows are displayed; when the results
\* hold M > 10 rows the message ends with the note "Showing 10 of M rows", and
\* with 10 rows or fewer it has no note.
C27_Original ==
    Posted =>
        /\ DisplayedRows <= 10
        /\ Val(result_message).tail =
              IF Len(data_array) > 10
              THEN <<"\n_Showing ", "10", " of ", ToString(Len(data_array)), " rows_">>
              ELSE <<>>

\* C27, amended: the message displays the first 10 rows of data_array, or all
\* of them when there are fewer; the note is appended when the row count that
\* the results report (their row_count field, the number of rows of data_array
\* when the field is absent) exceeds 10, and names that count.
C27_FirstTenAndNote ==
    Posted =>
        /\ DisplayedRows = (IF Len(data_array) > 10 THEN 10 ELSE Len(data_array))
        /\ \A k \in 1..DisplayedRows :
              Strip(Val(result_message).table[k + 2][1]) = Rep("1", k)
        /\ LET reported == IF IsNil(row_count) THEN Len(data_array)
                            ELSE Val(row_count)
           IN  Val(result_message).tail =
                 IF reported > 10
                 THEN <<"\n_Showing ", "10", " of ", ToString(reported), " rows_">>
                 ELSE <<>>

\* 11 rows and no row_count field: 10 rows displayed, the note names 11.
C27_Witness ==
    /\ Posted
    /\ Len(data_array) = 11 /\ IsNil(row_count)
    /\ DisplayedRows = 10
    /\ Val(result_message).tail = <<"\n_Showing ", "10", " of ", "11", " rows_">>

\* 11 rows under a row_count of 5: 10 rows displayed and no note.
C27_WitnessReported ==
    /\ Posted
    /\ Len(data_array) = 11 /\ row_count = Some(5)
    /\ DisplayedRows = 10
    /\ Val(result_message).tail = <<>>

\* ------------------------------------------------ claims on the text cleaning
\* A match of <@[A-Z0-9]+> in t from position i to position j.
MentionAt(t, i, j) ==
    /\ i + 3 <= j /\ j <= Len(t)
    /\ t[i] = "<" /\ t[i + 1] = "@" /\ t[j] = ">"
    /\ \A k \in (i + 2)..(j - 1) : t[k] \in {"U"}

HasMention(t) == \E i, j \in 1..Len(t) : MentionAt(t, i, j)

\* C28: on a non-empty text with no mention markup, _clean_message_text only
\* removes the whitespace at both ends, and cleaning the cleaned text again
\* changes nothing.
C28_CleanIdempotent ==
    [][event_text # <<>> /\ ~HasMention(event_text) =>
          /\ hpc' = "cleaned" =>
                /\ \E i, j \in 1..(Len(event_text) + 1) :
                      /\ text' = SubSeq(event_text, i, j - 1)
                      /\ \A k \in 1..(i - 1) : event_text[k] \in Whitespace
                      /\ \A k \in j..Len(event_text) : event_text[k] \in Whitespace
                /\ text' # <<>> =>
                      text'[1] \notin Whitespace /\ text'[Len(text')] \notin Whitespace
          /\ hpc = "cleaned" => text' = text]_vars

\* " q u " was cleaned to "q u", and cleaned again to the same.
C28_Witness ==
    /\ hpc = "recleaned"
    /\ event_text = <<" ", "q", " ", "u", " ">>
    /\ text = <<"q", " ", "u">>

\* Position k of t lies inside a match of the pattern.
InMention(t, k) == \E i, j \in 1..Len(t) : MentionAt(t, i, j) /\ i <= k /\ k <= j

\* A match that follows a character of the question: one that is neither
\* whitespace nor part of a mention.
NonLeadingMention(t) ==
    \E i, j \in 1..Len(t) :
       /\ MentionAt(t, i, j)
       /\ \E k \in 1..(i - 1) : t[k] \notin Whitespace /\ ~InMention(t, k)

\* The characters of t at the positions in S, in order.
RECURSIVE KeepAt(_, _, _)
KeepAt(t, S, k) ==
    IF k > Len(t) THEN <<>>
    ELSE (IF k \in S THEN <<t[k]>> ELSE <<>>) \o KeepAt(t, S, k + 1)

\* C29 as stated: only leading mention markup is stripped, so a mention token
\* that is not at the start is still in the cleaned text.
C29_Original ==
    hpc = "cleaned" /\ NonLeadingMention(event_text) => HasMention(text)

\* C29, amended: _clean_message_text removes every mention token of the text,
\* wherever it stands, and then the whitespace at both ends: the cleaned text
\* is the stripped sequence of the characters that lie in no match.
C29_EveryMentionRemoved ==
    hpc = "cleaned" =>
        LET kept == KeepAt(event_text,
                           {k \in 1..Len(event_text) : ~InMention(event_text, k)}, 1)
        IN  /\ Len(text) <= Len(kept)
            /\ \E i \in 0..Len(kept) :
                  /\ text = SubSeq(kept, i + 1, i + Len(text))
                  /\ \A k \in 1..i : kept[k] \in Whitespace
                  /\ \A k \in (i + Len(text) + 1)..Len(kept) : kept[k] \in Whitespace
            /\ text # <<>> =>
                  text[1] \notin Whitespace /\ text[Len(text)] \notin Whitespace

\* "q<@U>" was cleaned to "q".
C29_Witness ==
    /\ hpc = "cleaned"
    /\ event_text = <<"q">> \o Mention
    /\ text = <<"q">>

\* ------------------------------------------------- claims on the failure results
\* ask_question has returned after the poll loop ran out of time: every status
\* fetch returned a status, none of them terminal.
TimedOut ==
    /\ pc = "done" /\ ~IsNil(message_result) /\ IsNil(response)
    /\ fetched # <<>> /\ \A i \in 1..Len(fetched) : ~IsNil(fetched[i])

\* ask_question has returned on a FAILED or CANCELLED status.
EndedUnsuccessful ==
    /\ pc = "done" /\ ~IsNil(response)
    /\ Val(response).status \in {"FAILED", "CANCELLED"}

\* The error strings of the results for a FAILED or CANCELLED status, over the
\* error fields of the backend.
UnsuccessfulErrors ==
    {<<"Query failed: ">> \o m :
        m \in {<<"Unknown error">>, <<"e">>, <<"Failed to get response or timeout">>}}

\* C30: the result of a poll timeout and the result of a FAILED or CANCELLED
\* status are both failures with an error string, the string of the timeout is
\* none of those that a FAILED or CANCELLED status gives, whatever the backend's
\* error message, and both are rendered as the failure marker followed by the
\* error string.
C30_TimeoutDistinct ==
    /\ TimedOut =>
          /\ ~Val(result).success
          /\ Val(result).error = Some(<<"Failed to get response or timeout">>)
          /\ Val(Val(result).error) \notin UnsuccessfulErrors
          /\ FormatResponse(Val(result)) = <<":x: ">> \o Val(Val(result).error)
    /\ EndedUnsuccessful =>
          /\ ~Val(result).success
          /\ Val(Val(result).error) \in UnsuccessfulErrors
          /\ Val(Val(result).error) # <<"Failed to get response or timeout">>
          /\ FormatResponse(Val(result)) = <<":x: ">> \o Val(Val(result).error)

\* The poll loop ran for max_wait_time without a terminal status.
C30_Witness ==
    /\ TimedOut
    /\ elapsed >= max_wait_time
    /\ Val(result).error = Some(FailedOrTimeout)

\* A FAILED status whose error message is the text of the timeout error.
C30_WitnessFailed ==
    /\ EndedUnsuccessful
    /\ Val(response).status = "FAILED"
    /\ Val(result).error = Some(<<"Query failed: ", "Failed to get response or timeout">>)

\* ------------------------------------------------------- claims on the startup
\* main has called Config.validate.
ValidateCalled == Len(steps) >= 1 /\ mpc # "logging"

\* The required variables that are not set or are empty.
MissingNames == {v \in DOMAIN config : config[v] \in {None, ""}}

\* C31: Config.validate returns exactly when the four required values are set
\* and non-empty; otherwise it raises an error whose message lists the missing
\* names, each once and no other, and main exits with status 1 having built
\* neither the backend client nor the bot.
C31_ValidateGuardsStartup ==
    ValidateCalled =>
        IF MissingNames = {}
        THEN /\ IsNil(config_error)
             /\ Len(steps) >= 2 /\ steps[2] = "validate"
        ELSE /\ ~IsNil(config_error)
             /\ Val(config_error)[1] = "Missing required environment variables: "
             /\ Len(Val(config_error)) = 2 * Cardinality(MissingNames)
             /\ \A v \in MissingNames :
                   \E i \in 1..Cardinality(MissingNames) : Val(config_error)[2 * i] = v
             /\ \A i \in 1..(Cardinality(MissingNames) - 1) :
                   Val(config_error)[2 * i + 1] = ", "
             /\ mpc = "exited" /\ exit_code = Some(1)
             /\ steps = <<"setup_logging">>

\* SLACK_SIGNING_SECRET is empty and DATABRICKS_GENIE_SPACE_ID is not set.
C31_Witness ==
    /\ mpc = "exited"
    /\ config["SLACK_BOT_TOKEN"] = "v" /\ config["SLACK_SIGNING_SECRET"] = ""
    /\ config["SLACK_APP_TOKEN"] = "v" /\ config["DATABRICKS_GENIE_SPACE_ID"] = None
    /\ config_error = Some(<<"Missing required environment variables: ",
                             "SLACK_SIGNING_SECRET", ", ", "DATABRICKS_GENIE_SPACE_ID">>)
    /\ steps = <<"setup_logging">>

\* Every value set: the bot was started.
C31_WitnessStarted ==
    /\ mpc = "running" /\ MissingNames = {} /\ IsNil(config_error)
    /\ steps = <<"setup_logging", "validate", "DatabricksGenieClient",
                 "SlackGenieBot", "start">>

\* ------------------------------------------- claims on the shape of the results
\* C32: the result of ask_question has the same shape in both bots: it carries
\* a success flag, an error string and no response when success is false, the
\* response text and no error when success is true; the answer rendered from it
\* is the failure marker with the error, or the response (a fixed line when the
\* response is empty), and rendering it never takes the pass to the except
\* branch: only a failed send does.
C32_SameResultShape ==
    /\ ~IsNil(result) =>
          /\ Val(result).success \in BOOLEAN
          /\ IF Val(result).success
             THEN ~IsNil(Val(result).response) /\ IsNil(Val(result).error)
             ELSE /\ ~IsNil(Val(result).error) /\ Val(Val(result).error) # <<>>
                  /\ IsNil(Val(result).response)
          /\ \A i \in 1..Len(sent) :
                sent[i].kind = "answer" =>
                   sent[i].text =
                      IF ~Val(result).success
                      THEN <<":x: ">> \o Val(Val(result).error)
                      ELSE IF Val(Val(result).response) # <<>>
                      THEN Val(Val(result).response)
                      ELSE IF bot = "SlackGenieBot"
                      THEN <<"Query executed successfully">>
                      ELSE <<"Response generated successfully">>
    /\ hpc = "fault" => sent # <<>> /\ ~sent[Len(sent)].ok

\* A failed exchange of the model-serving bot, rendered.
C32_Witness ==
    /\ bot = "SlackModelServingBot" /\ hpc = "done"
    /\ ~IsNil(result) /\ ~Val(result).success
    /\ sent[Len(sent)] =
          [kind |-> "answer",
           text |-> <<":x: ", "Failed to get response from endpoint">>, ok |-> TRUE]

\* A failed exchange of the Genie bot, rendered.
C32_WitnessGenie ==
    /\ bot = "SlackGenieBot" /\ hpc = "done"
    /\ ~IsNil(result) /\ ~Val(result).success
    /\ \E i \in 1..Len(sent) :
          sent[i] = [kind |-> "answer",
                     text |-> <<":x: ", "Failed to send message">>, ok |-> TRUE]

\* ---------------------------------- claims on the stateless bot under concurrency
\* The successful exchanges on thread key k whose pass has ended, the one
\* before the two events included.
Exchanges(k) ==
    (IF history_ref[k] # None /\ heap["o0"] # <<>> /\ k = "t1" THEN 1 ELSE 0)
    + Cardinality({h \in Handlers :
         /\ handlers[h].hpc = "done"
         /\ handlers[h].thread_ts = k
         /\ Val(handlers[h].result).success})

Alternates(history) ==
    \A i \in 1..Len(history) :
       history[i].role = IF i % 2 = 1 THEN "user" ELSE "assistant"

\* C33: whenever no pass is under way, the history of every thread key holds
\* exactly two turns for each successful exchange on it, alternating user and
\* assistant, however the passes were interleaved.
C33_TwoTurnsPerExchange ==
    (\A h \in Handlers : handlers[h].hpc \in {"idle", "done"}) =>
       \A k \in Threads :
          /\ Len(conversation_history[k]) = 2 * Exchanges(k)
          /\ Alternates(conversation_history[k])

\* C33, its second half alone: the turns of a thread key alternate.
C33_NeverInterleaved ==
    (\A h \in Handlers : handlers[h].hpc \in {"idle", "done"}) =>
       \A k \in Threads : Alternates(conversation_history[k])

\* --------------------------------- claims on the outbound messages of one pass
\* The place of an outbound message in the order of a pass of SlackGenieBot.
Rank(kind) ==
    CASE kind = "indicator" -> 1
      [] kind = "answer" -> 2
      [] kind \in {"table", "chart", "suggested_questions"} -> 3
      [] kind = "feedback_prompt" -> 4
      [] OTHER -> 5

\* A pass of SlackGenieBot over a question is under way or has ended.
InGeniePass ==
    /\ bot = "SlackGenieBot"
    /\ hpc \in {"lookup", "ask", "store", "answer", "table", "attachments",
                "suggested", "feedback", "fault", "done", "raised"}

Asked == \E i \in 1..Len(calls) : calls[i].op = "ask_question"

\* C34: in a pass of SlackGenieBot the indicator is sent before the backend is
\* asked; the primary answer is sent after ask_question has returned and before
\* any table, attachment or suggestion message; the feedback prompt, when it is
\* sent, is the last message of the pass.
C34_OutboundOrder ==
    InGeniePass =>
       /\ (hpc = "ask" \/ Asked) => sent # <<>> /\ sent[1] = Msg("indicator", <<>>, TRUE)
       /\ hpc = "ask" => ~Asked /\ Len(sent) = 1
       /\ \A i \in 1..Len(sent) :
             /\ sent[i].kind = "indicator" => i = 1
             /\ sent[i].kind = "answer" => i = 2 /\ Asked /\ ~IsNil(result)
             /\ Rank(sent[i].kind) = 3 => i > 2 /\ sent[2] = Msg("answer", sent[2].text, TRUE)
             /\ sent[i].kind = "feedback_prompt" => i = Len(sent) /\ i > 2
       /\ \A i, j \in 1..Len(sent) : i < j => Rank(sent[i].kind) <= Rank(sent[j].kind)

\* A successful pass that sent all it can: the indicator, the answer, the
\* table, two charts, the suggestions and the feedback prompt.
C34_Witness ==
    /\ InGeniePass /\ hpc = "done"
    /\ ~IsNil(result) /\ Val(result).success
    /\ Len(sent) = 7
    /\ [i \in 1..7 |-> sent[i].kind] =
          <<"indicator", "answer", "table", "chart", "chart",
            "suggested_questions", "feedback_prompt">>
    /\ \A i \in 1..7 : sent[i].ok

\* The pass of SlackGenieBot under way or ended got success = false.
FailedPass == InGeniePass /\ ~IsNil(result) /\ ~Val(result).success

\* C35: when ask_question returns success = false, the pass of SlackGenieBot
\* sends after the indicator exactly one message, the error string behind the
\* failure marker, and no table, attachment, suggestion or feedback prompt; it
\* records nothing in message_feedback_map.  (When that one send raises, the
\* apology of the except block is attempted after it.)
C35_FailureSendsOnlyTheError ==
    [][FailedPass' =>
          /\ message_feedback_map' = message_feedback_map
          /\ Len(sent') <= 3
          /\ \A i \in 1..Len(sent') :
                /\ sent'[i].kind \in {"indicator", "answer", "apology"}
                /\ sent'[i].kind = "answer" =>
                      /\ i = 2
                      /\ sent'[i].text = FailureMarker \o Val(Val(result').error)
                /\ sent'[i].kind = "apology" => i = 3 /\ ~sent'[2].ok
          /\ hpc' = "done" => Len(sent') >= 2 /\ sent'[2].kind = "answer"]_vars

\* A failed query, reported: the indicator and the failure-marked error.
C35_Witness ==
    /\ FailedPass /\ hpc = "done"
    /\ Len(sent) = 2
    /\ sent[1] = Msg("indicator", <<>>, TRUE)
    /\ sent[2] = Msg("answer", FailureMarker \o Val(Val(result).error), TRUE)
    /\ \A ts \in DOMAIN message_feedback_map : IsNil(message_feedback_map[ts])

\* -------------------------------------------- claims on the reply to a message
Delivered(kinds) == \E i \in 1..Len(sent) : sent[i].kind \in kinds /\ sent[i].ok

AllSendsSucceeded == \A i \in 1..Len(sent) : sent[i].ok

\* C36: every accepted message gets its reply: when time advances, the pass
\* that accepted a question ends, whatever the backend does (a message that
\* never reaches a terminal status included); it ends having delivered the
\* formatted answer when every send succeeded, and having delivered the answer
\* or the apology unless the send of the apology itself failed.
C36_EveryAcceptedMessageIsAnswered ==
    (bot = "SlackGenieBot" /\ hpc = "indicator")
       ~> /\ hpc \in {"done", "raised"}
          /\ AllSendsSucceeded =>
                /\ hpc = "done"
                /\ ~IsNil(result)
                /\ Len(sent) >= 2
                /\ sent[2] = Msg("answer", FormatResponse(Val(result)), TRUE)
          /\ hpc = "done" => Delivered({"answer", "apology"})
          /\ hpc = "raised" => ~sent[Len(sent)].ok

\* The poll loop ran out of time on a message that stayed in progress, and the
\* pass delivered the failure-marked answer.
C36_Witness ==
    /\ bot = "SlackGenieBot" /\ hpc = "done" /\ AllSendsSucceeded
    /\ \E i \in 1..Len(calls) : calls[i].op = "status"
    /\ Len(calls) > DefaultMaxWaitTime \div (DefaultPollInterval + MaxFetchDelay + MaxJitter)
    /\ sent = <<Msg("indicator", <<>>, TRUE),
                Msg("answer", FailureMarker \o FailedOrTimeout, TRUE)>>

\* ------------------------------------------------- claims on the frame of a pass
\* The thread keys at which conversation_map differs between this state and
\* the next.
ChangedThreads ==
    {k \in DOMAIN conversation_map : conversation_map'[k] # conversation_map[k]}

\* C37: a step of a message pass for thread key k changes conversation_map at
\* no key other than k, and message_feedback_map at no key other than the ts of
\* the feedback prompt it has just delivered; a feedback interaction changes
\* neither map.
C37_PassTouchesItsOwnKeys ==
    [][/\ ChangedThreads \subseteq {thread_ts}
       /\ ChangedThreads # {} => thread_ts' = thread_ts /\ hpc = "store"
       /\ ChangedKeys # {} =>
             /\ hpc = "feedback"
             /\ sent'[Len(sent')].kind = "feedback_prompt"
             /\ sent'[Len(sent')].ok
             /\ ChangedKeys = {sent'[Len(sent')].ts}
       /\ hpc' = "feedback_done" => ChangedThreads = {} /\ ChangedKeys = {}]_vars

\* The second pass, on thread key t2, has stored its conversation and its
\* prompt; the conversation of t1 and the entry of the first prompt stand.
C37_Witness ==
    /\ bot = "SlackGenieBot" /\ hpc = "done" /\ events = 2 /\ thread_ts = "t2"
    /\ ~IsNil(result)
    /\ conversation_map["t2"] = Val(result).conversation_id
    /\ conversation_map["t1"] \notin {None, conversation_map["t2"]}
    /\ message_feedback_map[Ts(2)] =
          Some(<<Val(result).conversation_id, Val(result).message_id>>)
    /\ ~IsNil(message_feedback_map[Ts(1)])
    /\ Val(message_feedback_map[Ts(1)])[1] = conversation_map["t1"]

\* A feedback interaction after a recorded pass: both maps as the pass left them.
C37_WitnessFeedback ==
    /\ hpc = "feedback_done" /\ events = 2 /\ msg_ts = Ts(1)
    /\ ~IsNil(message_feedback_map[Ts(1)])
    /\ \E k \in Threads :
          conversation_map[k] = Val(message_feedback_map[Ts(1)])[1]

\* ----------------------------------------- claims on the ids that ask_question uses
\* ask_question has called wait_for_response.
WaitInvoked == pc \in {"start", "loop", "fetch", "sleep", "returned", "statement"}

\* C38: ask_question calls wait_for_response only with a non-empty conversation
\* id and a non-empty message id; the conversation id it polls is the one the
\* caller supplied unless the backend's answer names another, and the one the
\* backend created when the caller supplied none.
C38_WaitHasBothIds ==
    WaitInvoked =>
       /\ Truthy(actual_conversation_id)
       /\ Truthy(message_id)
       /\ Truthy(conversation_id) => actual_conversation_id # None

\* The same for the conversation id alone, on an existing conversation.
C38_SuppliedIdKept ==
    (WaitInvoked /\ Truthy(conversation_id)) => Truthy(actual_conversation_id)

\* ------------------------------------------------- claims on conversation_map
\* C39: a thread key that holds a conversation id in conversation_map holds a
\* non-empty id in every later state: no step of a pass, whether it succeeds,
\* fails, times out or faults, and no feedback interaction removes or empties it.
C39_ConversationKept ==
    [][\A k \in DOMAIN conversation_map :
          Truthy(conversation_map[k]) => Truthy(conversation_map'[k])]_vars

\* A later pass on the same thread key failed with a result that carries no
\* conversation id; the key holds the id that the earlier pass stored.
C39_Witness ==
    /\ bot = "SlackGenieBot" /\ hpc = "done" /\ events >= 2
    /\ ~IsNil(result) /\ ~Val(result).success
    /\ Val(result).conversation_id = None
    /\ conversation_id # None
    /\ conversation_map[thread_ts] = conversation_id

\* The same after a pass that faulted before it asked the backend.
C39_WitnessFault ==
    /\ bot = "SlackGenieBot" /\ hpc \in {"done", "raised"} /\ events >= 2
    /\ IsNil(result) /\ thread_ts # None
    /\ sent # <<>> /\ sent[Len(sent)].kind = "apology"
    /\ Truthy(conversation_map[thread_ts])

\* ------------------------------------- claims on the messages sent to the endpoint
\* A system prompt is configured: set and not empty.
Configured == ~IsNil(system_prompt) /\ Val(system_prompt) # <<>>

\* C40: the messages list that SlackModelServingBot sends to the endpoint is
\* the system prompt first if and only if one is configured, then the stored
\* turns of the thread in stored order with their roles, then the current
\* question as the single last user message; the history passed in is the
\* stored one, which does not contain the current question yet (it is empty or
\* ends with an assistant turn); a failed call leaves the stored history as it
\* was.
C40_MessagesList ==
    [][/\ (hpc = "ask" /\ hpc' = "store") =>
             LET stored == conversation_history[thread_ts]
                 n == Len(stored)
                 sys == IF Configured THEN 1 ELSE 0
             IN  /\ Len(messages') = sys + n + 1
                 /\ Configured => messages'[1] = Turn("system", Val(system_prompt))
                 /\ ~Configured => \A i \in 1..Len(messages') :
                                      messages'[i].role # "system"
                 /\ \A i \in 1..n : messages'[sys + i] = stored[i]
                 /\ messages'[sys + n + 1] = Turn("user", text)
                 /\ n % 2 = 0
                 /\ n > 0 => messages'[sys + n].role = "assistant"
                 /\ conversation_history' = conversation_history
       /\ (bot = "SlackModelServingBot" /\ hpc = "store" /\ ~Val(result).success) =>
             conversation_history' = conversation_history]_vars

\* The second question on a thread, with a system prompt: the prompt, the two
\* stored turns, the question.
C40_Witness ==
    /\ bot = "SlackModelServingBot" /\ hpc = "store"
    /\ Configured
    /\ Len(conversation_history[thread_ts]) = 2
    /\ messages = <<Turn("system", Val(system_prompt)),
                    conversation_history[thread_ts][1],
                    conversation_history[thread_ts][2],
                    Turn("user", text)>>

\* A failed call after a successful exchange on the thread: the two turns stand.
C40_WitnessFailed ==
    /\ bot = "SlackModelServingBot" /\ hpc = "answer"
    /\ ~Val(result).success
    /\ Len(messages) = 3
    /\ conversation_history[thread_ts] = <<messages[1], messages[2]>>

=============================================================================
